---- MODULE Spec2Model ----
(***************************************************************************)
(* Model of the weather back end: the batched Firestore writer and the    *)
(* R2 upload (database/models.py), the scheduled tasks (main.py), the     *)
(* weather description parser, the radar grid aggregation, the forecast   *)
(* and station extractors (utils/data_processing.py) and the sunrise      *)
(* merge (weather/sunrise.py).                                            *)
(*                                                                         *)
(* Each component has its own specification (SpecBatch, SpecTask,          *)
(* SpecParse, SpecRadar, SpecForecast, SpecStations, SpecSunrise,          *)
(* SpecUpload; SpecRepeat runs a normalizer twice; SpecPreloader drives    *)
(* the ClientPreloader through its API and interleaves get_r2_client on    *)
(* the main thread and the worker thread); the variables of the other      *)
(* components stay at their idle values.                                   *)
(***************************************************************************)
EXTENDS Integers, Sequences, FiniteSets, TLC

VARIABLES
    \* ---- batch_save (database/models.py) ----
    kind,           \* the model class whose batch_save runs
    items,          \* the input list; items[i].wellFormed: the model builds from it
    batch_size,     \* the batch_size argument
    bpc,            \* position of the call: "client", "loop", "returned", "raised"
    pos,            \* 1-based index of the next item of the for loop
    count,          \* writes staged since the last successful in-loop commit
    stats,          \* the stats dict
    circuit_open,   \* the circuit_open flag
    batch,          \* item indexes staged in the current WriteBatch object
    commits,        \* the committed batches, in order
    exc,            \* the exception the call raised ("none" if none)
    result,         \* the value returned to the caller (NoResult if none)
    trace,          \* history: what happened at each loop iteration and at the flush
    \* ---- scheduled tasks (main.py) and the client preloader ----
    task,           \* the task function that is running
    tpc,            \* position of the run
    texc,           \* the exception the run raised ("none" if none)
    notifier_calls, \* calls of notify_success / notify_failure made by this run
    steps,          \* the steps this run has completed, in order
    keys_configured,\* the three API keys are present in the environment
    started,        \* ClientPreloader._firestore_preloading_started / _r2_preloading_started
    future,         \* ClientPreloader.firestore_future / r2_future
    client,         \* the module globals _db_client / _r2_client
    runs,           \* task runs started in this process
    submitted,      \* jobs handed to executor.submit, per client
    \* ---- parse_weather_description (utils/data_processing.py) ----
    description,    \* the argument, a string as a sequence of tokens
    desc_is_str,    \* FALSE: the argument is not a string (None, a number, ...)
    ppc,            \* "input" before the call, "done" after it
    parsed,         \* outcome of the call: [raised, value]
    \* ---- extract_radar_rainfall (utils/data_processing.py) ----
    missing,        \* the key absent from the payload ("none": payload complete)
    params,         \* StartPointLongitude / StartPointLatitude / GridResolution of the payload
    grid_dim_x,     \* GridDimensionX of the payload
    grid_dim_y,     \* GridDimensionY of the payload
    content,        \* the parsed content string: cell values in hundredths, row-major
    rpc,            \* "input" before the call, "done" after it
    radar_out,      \* outcome of the call: [raised, path, metadata fields, rainfall_grid]
    \* ---- extract_three_hour_forecast / extract_weekly_forecast ----
    fkind,          \* "three_hour" or "weekly"
    time_series,    \* the Time list of the description element of the town
    companion,      \* the Time list of the (max) apparent temperature element
    companion_min,  \* the Time list of the min apparent temperature element
    fpc,            \* "input" before the call, "done" after it
    forecast_out,   \* outcome of the call: [raised, forecasts]
    \* ---- extract_observation_data / extract_uv_data ----
    skind,          \* "observation" or "uv"
    stations,       \* records.Station of the payload
    spc,            \* "input" before the call, "done" after it
    stations_out,   \* outcome of the call: [raised, processed_data]
    \* ---- SunriseService.fetch_sunrise_data (weather/sunrise.py) ----
    records_present,\* whether the sun / the moon payload has "records"
    sun_entries,    \* the (county, date) entries of the sun payload, in order
    moon_entries,   \* the (county, date) entries of the moon payload, in order
    sunpc,          \* "input" before the call, "done" after it
    sunrise_out,    \* outcome of the call: [raised, records]
    \* ---- the wall clock and repeated normalization ----
    clock,          \* what datetime.now() returns
    repeated,       \* the normalizer has been invoked a second time on its payload
    first_out,      \* the outcome of the first invocation, once repeated
    \* ---- save_to_r2 (database/models.py) and RadarService.update_r2_radar ----
    uploader,       \* the class whose save_to_r2 runs
    upc,            \* position of the call
    r2_env,         \* the environment: R2 credentials and R2_BUCKET_NAME configured
    r2_cached,      \* the module global _r2_client is set
    put_attempts,   \* put_object calls made by this save_to_r2 call
    put_done,       \* a put_object of this call succeeded
    ufailed,        \* the step of this call that failed ("none" if none)
    uexc,           \* the exception the call raised ("none" if none)
    upload_result,  \* what update_r2_radar returned (NoResult if nothing)
    uploads,        \* save_to_r2 calls started in this process
    stored,         \* the keys of the objects in the bucket
    \* ---- the ClientPreloader API and get_r2_client across two threads ----
    worker,         \* position of each client's preload job on its worker thread
    caller,         \* position of the main thread
    target,         \* the client the main thread waited for and is about to use
    api_calls,      \* ClientPreloader calls the main thread has made
    waited,         \* the wait_for_* calls so far: what each found and raised
    built,          \* the R2 clients constructed, named by the thread that built them
    assigned,       \* the values stored into _r2_client, in order
    returned,       \* what get_r2_client returned: [thread, instance]
    overlapped      \* a thread passed the null check while the other was constructing

batchVars == <<kind, items, batch_size, bpc, pos, count, stats, circuit_open,
               batch, commits, exc, result, trace>>

taskVars == <<task, tpc, texc, notifier_calls, steps, keys_configured,
              started, future, client, runs, submitted>>

parseVars == <<description, desc_is_str, ppc, parsed>>

radarVars == <<missing, params, grid_dim_x, grid_dim_y, content, rpc, radar_out>>

forecastVars == <<fkind, time_series, companion, companion_min, fpc, forecast_out>>

stationVars == <<skind, stations, spc, stations_out>>

sunriseVars == <<records_present, sun_entries, moon_entries, sunpc, sunrise_out>>

repeatVars == <<clock, repeated, first_out>>

uploadVars == <<uploader, upc, r2_env, r2_cached, put_attempts, put_done,
                ufailed, uexc, upload_result, uploads, stored>>

preloaderVars == <<worker, caller, target, api_calls, waited, built, assigned,
                   returned, overlapped>>

vars == <<batchVars, taskVars, parseVars, radarVars, forecastVars, stationVars,
          sunriseVars, repeatVars, uploadVars, preloaderVars>>

nonBatchVars == <<taskVars, parseVars, radarVars, forecastVars,
    stationVars, sunriseVars, repeatVars, uploadVars,
    preloaderVars>>

nonTaskVars == <<batchVars, parseVars, radarVars, forecastVars,
    stationVars, sunriseVars, repeatVars, uploadVars,
    preloaderVars>>

nonParseVars == <<batchVars, taskVars, radarVars, forecastVars,
    stationVars, sunriseVars, repeatVars, uploadVars,
    preloaderVars>>

nonRadarVars == <<batchVars, taskVars, parseVars, forecastVars,
    stationVars, sunriseVars, repeatVars, uploadVars,
    preloaderVars>>

nonForecastVars == <<batchVars, taskVars, parseVars, radarVars,
    stationVars, sunriseVars, repeatVars, uploadVars,
    preloaderVars>>

nonStationVars == <<batchVars, taskVars, parseVars, radarVars,
    forecastVars, sunriseVars, repeatVars, uploadVars,
    preloaderVars>>

nonSunriseVars == <<batchVars, taskVars, parseVars, radarVars,
    forecastVars, stationVars, repeatVars, uploadVars,
    preloaderVars>>

nonRepeatVars == <<batchVars, taskVars, parseVars, radarVars,
    forecastVars, stationVars, sunriseVars, uploadVars,
    preloaderVars>>

nonUploadVars == <<batchVars, taskVars, parseVars, radarVars,
    forecastVars, stationVars, sunriseVars, repeatVars,
    preloaderVars>>

nonPreloaderVars == <<batchVars, parseVars, radarVars, forecastVars,
    stationVars, sunriseVars, repeatVars, uploadVars>>

-----------------------------------------------------------------------------
(* Bounds *)
MaxItems == 3
MaxBatchSize == 3
MaxRuns == 2
MaxClauses == 4
MaxDimX == 8
MaxDimY == 5
MaxSeries == 2
MaxStations == 2
MaxEntries == 2
MaxClock == 2
MaxUploads == 3
MaxCalls == 5

-----------------------------------------------------------------------------
(* Idle values of the task variables *)

Clients == {"firestore", "r2"}

\* no task is running
IdleTask ==
    /\ task = "update_current_weather"
    /\ tpc = "idle"
    /\ texc = "none"
    /\ notifier_calls = <<>>
    /\ steps = <<>>
    /\ keys_configured = TRUE
    /\ started = [c \in Clients |-> FALSE]
    /\ future = [c \in Clients |-> "None"]
    /\ client = [c \in Clients |-> "None"]
    /\ runs = 0
    /\ submitted = [c \in Clients |-> 0]

\* no parse_weather_description call
IdleParse ==
    /\ description = <<>>
    /\ desc_is_str = TRUE
    /\ ppc = "idle"
    /\ parsed = [raised |-> FALSE, value |-> <<>>]

NoRadarOutput ==
    [raised |-> "none", path |-> "none",
     start_lon |-> 0, start_lat |-> 0, res_lon |-> 0, res_lat |-> 0,
     dim_x |-> 0, dim_y |-> 0, timestamp |-> 0, rainfall_grid |-> <<>>]

\* the parameterSet values of a payload (longitude and latitude in tenths of
\* a degree, resolution in ten-thousandths)
ParamSets ==
    {[StartPointLongitude |-> 1155, StartPointLatitude |-> 215, GridResolution |-> 250],
     [StartPointLongitude |-> 1180, StartPointLatitude |-> 200, GridResolution |-> 125]}

\* no extract_radar_rainfall call
IdleRadar ==
    /\ missing = "none"
    /\ params = CHOOSE p \in ParamSets : p.GridResolution = 125
    /\ grid_dim_x = 0
    /\ grid_dim_y = 0
    /\ content = <<>>
    /\ rpc = "idle"
    /\ radar_out = NoRadarOutput

\* no extract_three_hour_forecast / extract_weekly_forecast call
IdleForecast ==
    /\ fkind = "three_hour"
    /\ time_series = <<>>
    /\ companion = <<>>
    /\ companion_min = <<>>
    /\ fpc = "idle"
    /\ forecast_out = [raised |-> "none", forecasts |-> <<>>]

\* no extract_observation_data / extract_uv_data call
IdleStations ==
    /\ skind = "observation"
    /\ stations = <<>>
    /\ spc = "idle"
    /\ stations_out = [raised |-> "none", processed_data |-> <<>>]

\* no fetch_sunrise_data call
IdleSunrise ==
    /\ records_present = [sun |-> TRUE, moon |-> TRUE]
    /\ sun_entries = <<>>
    /\ moon_entries = <<>>
    /\ sunpc = "idle"
    /\ sunrise_out = [raised |-> "none", records |-> <<>>]

\* the clock at its first reading, nothing normalized twice
IdleRepeat ==
    /\ clock = 1
    /\ repeated = FALSE
    /\ first_out = <<>>

\* no save_to_r2 call
IdleUpload ==
    /\ uploader = "RadarPredict"
    /\ upc = "idle"
    /\ r2_env = [credentials |-> TRUE, bucket |-> TRUE]
    /\ r2_cached = FALSE
    /\ put_attempts = 0
    /\ put_done = FALSE
    /\ ufailed = "none"
    /\ uexc = "none"
    /\ upload_result = [none |-> TRUE]
    /\ uploads = 0
    /\ stored = {}

\* the ClientPreloader untouched, no get_r2_client call in progress
IdlePreloader ==
    /\ worker = [c \in Clients |-> "idle"]
    /\ caller = "idle"
    /\ target = "firestore"
    /\ api_calls = 0
    /\ waited = <<>>
    /\ built = {}
    /\ assigned = <<>>
    /\ returned = {}
    /\ overlapped = FALSE

-----------------------------------------------------------------------------
(* batch_save *)

Kinds == {"ObservationData", "ThreeHourForecast", "WeeklyForecast",
          "UVIndexData", "AirQualityData", "SunriseData"}

QuotaErrors == {"ResourceExhausted", "DeadlineExceeded"}

\* what batch.set / batch.commit can do: return, raise a generic exception,
\* or raise one of the two quota-class exceptions
WriteResults == {"ok", "Exception"} \cup QuotaErrors

NoResult == [none |-> TRUE]

InitialStats(n) ==
    [total_attempts |-> n, success_count |-> 0, failed_count |-> 0,
     failed_items |-> <<>>]

\* the identity keys a failed_items entry carries
IdentityFields(k) ==
    IF k \in {"ObservationData", "UVIndexData", "AirQualityData"}
    THEN <<"stationId", "stationName">>
    ELSE IF k \in {"ThreeHourForecast", "WeeklyForecast"}
    THEN <<"countyName", "townName">>
    ELSE <<"countyName", "date">>

\* SunriseData's generic handler stores one composite 'id' instead
GenericIdentityFields(k) ==
    IF k = "SunriseData" THEN <<"id">> ELSE IdentityFields(k)

QuotaAbortText == "Firestore quota exceeded. Write operation aborted."

ErrorText(e) == e \o ": raised"

FailedEntry(i, fields, text) == [item |-> i, fields |-> fields, error |-> text]

\* mutant: the failure is counted and its entry is not stored
MarkFailedCountOnly(st, entry) ==
    [st EXCEPT !.failed_count = @ + 1]

\* stats['failed_count'] += 1 and stats['failed_items'].append({...})
MarkFailed(st, entry) ==
    [st EXCEPT !.failed_count = @ + 1,
               !.failed_items = Append(@, entry)]

Event(i, b, s, c) == [item |-> i, build |-> b, set |-> s, commit |-> c]

\* mutant: the outer handler logs the error and does not re-raise
GetClientSwallows(ok) ==
    /\ bpc = "client"
    /\ bpc' = IF ok THEN "loop" ELSE "returned"
    /\ exc' = exc
    /\ UNCHANGED <<kind, items, batch_size, pos, count, stats, circuit_open,
                   batch, commits, result, trace>>
    /\ UNCHANGED nonBatchVars

\* get_firestore_client() / db.batch() at the head of the outer try
GetClient(ok) ==
    /\ bpc = "client"
    /\ IF ok
       THEN /\ bpc' = "loop"
            /\ exc' = exc
       ELSE /\ bpc' = "raised"
            /\ exc' = "Exception"
    /\ UNCHANGED <<kind, items, batch_size, pos, count, stats, circuit_open,
                   batch, commits, result, trace>>
    /\ UNCHANGED nonBatchVars

\* `if circuit_open:` branch at the head of the loop body
SkipItem(i) ==
    /\ stats' = MarkFailed(stats, FailedEntry(i, IdentityFields(kind), QuotaAbortText))
    /\ trace' = Append(trace, Event(i, "skipped", "none", "none"))
    /\ pos' = pos + 1
    /\ UNCHANGED <<bpc, count, circuit_open, batch, commits, exc>>

\* mutant: the quota handler neither trips the latch nor re-raises
QuotaHandlerNoLatch(i, e, st, ev) ==
    /\ circuit_open' = circuit_open
    /\ stats' = MarkFailed(st, FailedEntry(i, IdentityFields(kind), ErrorText(e)))
    /\ trace' = Append(trace, ev)
    /\ bpc' = bpc
    /\ exc' = exc
    /\ pos' = pos + 1

\* mutant: the quota handler records the failure and continues the loop
QuotaHandlerContinues(i, e, st, ev) ==
    /\ circuit_open' = TRUE
    /\ stats' = MarkFailed(st, FailedEntry(i, IdentityFields(kind), ErrorText(e)))
    /\ trace' = Append(trace, ev)
    /\ bpc' = bpc
    /\ exc' = exc
    /\ pos' = pos + 1

\* `except (ResourceExhausted, DeadlineExceeded) as e:` then the outer
\* `except Exception: raise`
QuotaHandler(i, e, st, ev) ==
    /\ circuit_open' = TRUE
    /\ stats' = MarkFailed(st, FailedEntry(i, IdentityFields(kind), ErrorText(e)))
    /\ trace' = Append(trace, ev)
    /\ bpc' = "raised"
    /\ exc' = e
    /\ pos' = pos

\* mutant: the generic handler re-raises instead of continuing
GenericHandlerRaises(i, e, st, ev) ==
    /\ circuit_open' = circuit_open
    /\ stats' = MarkFailed(st, FailedEntry(i, GenericIdentityFields(kind), ErrorText(e)))
    /\ trace' = Append(trace, ev)
    /\ bpc' = "raised"
    /\ exc' = e
    /\ pos' = pos

\* `except Exception as e:` ... `continue`
GenericHandler(i, e, st, ev) ==
    /\ circuit_open' = circuit_open
    /\ stats' = MarkFailed(st, FailedEntry(i, GenericIdentityFields(kind), ErrorText(e)))
    /\ trace' = Append(trace, ev)
    /\ bpc' = bpc
    /\ exc' = exc
    /\ pos' = pos + 1

Handler(i, e, st, ev) ==
    IF e \in QuotaErrors THEN QuotaHandler(i, e, st, ev)
                         ELSE GenericHandler(i, e, st, ev)

\* mutant: off-by-one in the batch-full test
CommitDueLate(c, size) == c > size

\* `if count >= batch_size:`
CommitDue(c, size) == c >= size

\* the try block of the loop body: build the model, batch.set, count the
\* write, commit when the batch is full
TryItem(i, o) ==
    IF ~items[i].wellFormed
    THEN \* the constructor raises KeyError / ValueError
         /\ Handler(i, "Exception", stats, Event(i, "Exception", "none", "none"))
         /\ UNCHANGED <<count, batch, commits>>
    ELSE IF o.set # "ok"
    THEN /\ Handler(i, o.set, stats, Event(i, "ok", o.set, "none"))
         /\ UNCHANGED <<count, batch, commits>>
    ELSE LET staged == [stats EXCEPT !.success_count = @ + 1]
         IN  IF ~CommitDue(count + 1, batch_size)
             THEN /\ count' = count + 1
                  /\ batch' = Append(batch, i)
                  /\ stats' = staged
                  /\ trace' = Append(trace, Event(i, "ok", "ok", "none"))
                  /\ pos' = pos + 1
                  /\ UNCHANGED <<bpc, circuit_open, commits, exc>>
             ELSE IF o.commit = "ok"
             THEN /\ commits' = Append(commits, Append(batch, i))
                  /\ batch' = <<>>
                  /\ count' = 0
                  /\ stats' = staged
                  /\ trace' = Append(trace, Event(i, "ok", "ok", "ok"))
                  /\ pos' = pos + 1
                  /\ UNCHANGED <<bpc, circuit_open, exc>>
             ELSE \* batch.commit() raised: batch and count keep the staged writes
                  /\ count' = count + 1
                  /\ batch' = Append(batch, i)
                  /\ commits' = commits
                  /\ Handler(i, o.commit, staged, Event(i, "ok", "ok", o.commit))

\* one iteration of `for data in ...:`
ProcessItem ==
    /\ bpc = "loop"
    /\ pos <= Len(items)
    /\ \E o \in [set : WriteResults, commit : WriteResults] :
          IF circuit_open THEN SkipItem(pos) ELSE TryItem(pos, o)
    /\ UNCHANGED <<kind, items, batch_size, result>>
    /\ UNCHANGED nonBatchVars

\* mutant: the flush commits only a batch that is full
FinalFlushFullBatchOnly ==
    /\ bpc = "loop"
    /\ pos > Len(items)
    /\ IF count >= batch_size /\ ~circuit_open
       THEN \E c \in WriteResults :
              /\ trace' = Append(trace, Event(0, "none", "none", c))
              /\ IF c = "ok"
                 THEN /\ commits' = Append(commits, batch)
                      /\ bpc' = "returned"
                      /\ result' = stats
                      /\ exc' = exc
                 ELSE /\ commits' = commits
                      /\ bpc' = "raised"
                      /\ result' = result
                      /\ exc' = c
       ELSE /\ bpc' = "returned"
            /\ result' = stats
            /\ UNCHANGED <<commits, exc, trace>>
    /\ UNCHANGED <<kind, items, batch_size, pos, count, stats, circuit_open, batch>>
    /\ UNCHANGED nonBatchVars

\* `if count > 0 and not circuit_open: batch.commit()` and `return stats`
FinalFlush ==
    /\ bpc = "loop"
    /\ pos > Len(items)
    /\ IF count > 0 /\ ~circuit_open
       THEN \E c \in WriteResults :
              /\ trace' = Append(trace, Event(0, "none", "none", c))
              /\ IF c = "ok"
                 THEN /\ commits' = Append(commits, batch)
                      /\ bpc' = "returned"
                      /\ result' = stats
                      /\ exc' = exc
                 ELSE /\ commits' = commits
                      /\ bpc' = "raised"
                      /\ result' = result
                      /\ exc' = c
       ELSE /\ bpc' = "returned"
            /\ result' = stats
            /\ UNCHANGED <<commits, exc, trace>>
    /\ UNCHANGED <<kind, items, batch_size, pos, count, stats, circuit_open, batch>>
    /\ UNCHANGED nonBatchVars

\* no batch_save call in progress
IdleBatch ==
    /\ kind = "AirQualityData"
    /\ items = <<>>
    /\ stats = InitialStats(0)
    /\ batch_size = 1
    /\ bpc = "idle"
    /\ pos = 1
    /\ count = 0
    /\ circuit_open = FALSE
    /\ batch = <<>>
    /\ commits = <<>>
    /\ exc = "none"
    /\ result = NoResult
    /\ trace = <<>>

InitBatch ==
    /\ IdlePreloader
    /\ IdleUpload
    /\ IdleSunrise
    /\ IdleRepeat
    /\ IdleStations
    /\ IdleForecast
    /\ IdleRadar
    /\ IdleTask
    /\ IdleParse
    /\ kind \in Kinds
    /\ \E n \in 0..MaxItems :
          /\ items \in [1..n -> [wellFormed : BOOLEAN]]
          /\ stats = InitialStats(n)
    /\ batch_size \in 1..MaxBatchSize
    /\ bpc = "client"
    /\ pos = 1
    /\ count = 0
    /\ circuit_open = FALSE
    /\ batch = <<>>
    /\ commits = <<>>
    /\ exc = "none"
    /\ result = NoResult
    /\ trace = <<>>

NextBatch ==
    \/ \E ok \in BOOLEAN : GetClient(ok)
    \/ ProcessItem
    \/ FinalFlush

SpecBatch == InitBatch /\ [][NextBatch]_vars

\* batch_save runs on one thread that is never suspended for ever: the call
\* keeps taking steps until it has returned or raised
SpecBatchFair == SpecBatch /\ WF_vars(NextBatch)

-----------------------------------------------------------------------------
(* The scheduled tasks of main.py and the ClientPreloader *)

Tasks == {"update_current_weather", "update_three_hour_forecast",
          "update_weekly_forecast", "update_uv_index", "update_air_quality",
          "update_radar_rainfall", "update_sunrise_sunset"}

\* the store client a task preloads and waits for
ClientOf(t) == IF t = "update_radar_rainfall" THEN "r2" ELSE "firestore"

\* update_radar_rainfall has its connectivity check commented out
HasConnectionCheck(t) == t # "update_radar_rainfall"

NotifierCall(m, e) == [method |-> m, error |-> e]

\* mutant: no guard on the started flag, every call submits a job
StartPreloadingAlways(c) ==
    /\ started' = [started EXCEPT ![c] = TRUE]
    /\ future' = [future EXCEPT ![c] = "running"]
    /\ submitted' = [submitted EXCEPT ![c] = @ + 1]

\* start_firestore_preloading / start_r2_preloading: submit the job once
StartPreloading(c) ==
    IF started[c]
    THEN UNCHANGED <<started, future, submitted>>
    ELSE /\ started' = [started EXCEPT ![c] = TRUE]
         /\ future' = [future EXCEPT ![c] = "running"]
         /\ submitted' = [submitted EXCEPT ![c] = @ + 1]

\* first statement of every task
StartPreload ==
    /\ tpc = "start"
    /\ StartPreloading(ClientOf(task))
    /\ tpc' = "construct"
    /\ steps' = Append(steps, "start_preloading")
    /\ UNCHANGED <<task, texc, notifier_calls, keys_configured, client, runs>>
    /\ UNCHANGED nonTaskVars

\* WeatherAPIService(...), the data service and NotificationService(), all
\* before the try block; WeatherAPIService.__init__ raises ValueError when a
\* key is missing
ConstructServices ==
    /\ tpc = "construct"
    /\ IF keys_configured
       THEN /\ tpc' = IF HasConnectionCheck(task) THEN "check" ELSE "fetch"
            /\ texc' = texc
       ELSE /\ tpc' = "raised"
            /\ texc' = "ValueError"
    /\ UNCHANGED <<task, notifier_calls, steps, keys_configured, started,
                   future, client, runs, submitted>>
    /\ UNCHANGED nonTaskVars

\* NotificationService.notify_failure: _format_error_message reads the last
\* frame of error.__traceback__, which does not exist for an exception object
\* that was never raised
NotifyFailureRaises(raisedBefore) == ~raisedBefore

\* `except Exception as e:` of a task: notify_failure(e), then raise
ExceptHandler(e, calls) ==
    /\ notifier_calls' = Append(calls, NotifierCall("notify_failure", e))
    /\ tpc' = "raised"
    /\ texc' = e

\* weather_api.test_connection(...) and the `if not api_status[...]` branch
TestConnection(reachable) ==
    /\ tpc = "check"
    /\ steps' = Append(steps, "test_connection")
    /\ IF reachable
       THEN /\ tpc' = "fetch"
            /\ UNCHANGED <<texc, notifier_calls>>
       ELSE LET calls == Append(notifier_calls,
                                NotifierCall("notify_failure", "ConnectionError"))
            IN  IF NotifyFailureRaises(FALSE)
                THEN ExceptHandler("IndexError", calls)
                ELSE /\ notifier_calls' = calls
                     /\ tpc' = "returned"
                     /\ texc' = texc
    /\ UNCHANGED <<task, keys_configured, started, future, client, runs, submitted>>
    /\ UNCHANGED nonTaskVars

\* mutant: the task writes right after the fetch, without the wait
FetchThenWrite(ok) ==
    /\ tpc = "fetch"
    /\ IF ok
       THEN /\ tpc' = "write"
            /\ steps' = Append(steps, "fetch")
            /\ UNCHANGED <<texc, notifier_calls>>
       ELSE /\ ExceptHandler("Exception", notifier_calls)
            /\ steps' = steps
    /\ UNCHANGED <<task, keys_configured, started, future, client, runs, submitted>>
    /\ UNCHANGED nonTaskVars

\* the fetch_* call of the task's service: the API request and normalisation
Fetch(ok) ==
    /\ tpc = "fetch"
    /\ IF ok
       THEN /\ tpc' = "wait"
            /\ steps' = Append(steps, "fetch")
            /\ UNCHANGED <<texc, notifier_calls>>
       ELSE /\ ExceptHandler("Exception", notifier_calls)
            /\ steps' = steps
    /\ UNCHANGED <<task, keys_configured, started, future, client, runs, submitted>>
    /\ UNCHANGED nonTaskVars

\* ClientPreloader._preload_firestore / _preload_r2 on the worker thread,
\* the whole job as one step (SpecPreloader has it statement by statement);
\* _db_client exists since the import of database.models, so only the R2
\* client can fail to build
PreloadWorker(c, ok) ==
    /\ future[c] = "running"
    /\ c = "firestore" => ok
    /\ IF ok
       THEN /\ future' = [future EXCEPT ![c] = "client"]
            /\ client' = [client EXCEPT ![c] = "client"]
       ELSE /\ future' = [future EXCEPT ![c] = "failed"]
            /\ client' = client
    /\ UNCHANGED <<task, tpc, texc, notifier_calls, steps, keys_configured,
                   started, runs, submitted>>
    /\ UNCHANGED nonTaskVars

\* future.result(timeout=timeout): the value the job returned, or
\* TimeoutError when the job is still running as the timeout expires
FutureResult(c) ==
    IF future[c] = "running"
    THEN [raised |-> "TimeoutError", value |-> "None"]
    ELSE [raised |-> "none",
          value |-> IF future[c] = "failed" THEN "None" ELSE future[c]]

\* mutant: the wait has no handler for the timeout
WaitForTimeoutEscapes(c) ==
    IF future[c] = "None"
    THEN [log |-> "not started", raised |-> "none"]
    ELSE IF FutureResult(c).raised # "none"
    THEN [log |-> "none", raised |-> FutureResult(c).raised]
    ELSE IF FutureResult(c).value # "None"
    THEN [log |-> "done", raised |-> "none"]
    ELSE [log |-> "failed", raised |-> "none"]

\* wait_for_firestore / wait_for_r2: the branch taken (named by what it
\* logs) and the exception that leaves the call; `except TimeoutError` and
\* `except Exception` catch whatever future.result raises
WaitFor(c) ==
    IF future[c] = "None"
    THEN [log |-> "not started", raised |-> "none"]
    ELSE IF FutureResult(c).raised # "none"
    THEN [log |-> IF FutureResult(c).raised = "TimeoutError"
                  THEN "timeout" ELSE "error",
          raised |-> "none"]
    ELSE IF FutureResult(c).value # "None"
    THEN [log |-> "done", raised |-> "none"]
    ELSE [log |-> "failed", raised |-> "none"]

\* wait_for_firestore_preloading(timeout=5) / wait_for_r2_preloading(timeout=5)
\* inside the try block of the task
WaitForPreloading ==
    /\ tpc = "wait"
    /\ steps' = Append(steps, "wait_for_preloading")
    /\ IF WaitFor(ClientOf(task)).raised = "none"
       THEN /\ tpc' = "write"
            /\ UNCHANGED <<texc, notifier_calls>>
       ELSE ExceptHandler(WaitFor(ClientOf(task)).raised, notifier_calls)
    /\ UNCHANGED <<task, keys_configured, started,
                   future, client, runs, submitted>>
    /\ UNCHANGED nonTaskVars

\* update_firebase / update_r2_radar, then notify_success
Write(ok) ==
    /\ tpc = "write"
    /\ IF ok
       THEN /\ steps' = Append(steps, "write")
            /\ client' = [client EXCEPT ![ClientOf(task)] = "client"]
            /\ notifier_calls' =
                  Append(notifier_calls, NotifierCall("notify_success", "none"))
            /\ tpc' = "returned"
            /\ texc' = texc
       ELSE /\ ExceptHandler("Exception", notifier_calls)
            /\ UNCHANGED <<steps, client>>
    /\ UNCHANGED <<task, keys_configured, started, future, runs, submitted>>
    /\ UNCHANGED nonTaskVars

\* the next task function called in the same process
NewRun(t) ==
    /\ tpc \in {"returned", "raised"}
    /\ runs < MaxRuns
    /\ runs' = runs + 1
    /\ task' = t
    /\ tpc' = "start"
    /\ texc' = "none"
    /\ notifier_calls' = <<>>
    /\ steps' = <<>>
    /\ UNCHANGED <<keys_configured, started, future, client, submitted>>
    /\ UNCHANGED nonTaskVars

\* the process after `import main`: database.models has built _db_client
\* (db = get_firestore_client()) and the ClientPreloader
InitTask ==
    /\ IdlePreloader
    /\ IdleUpload
    /\ IdleSunrise
    /\ IdleRepeat
    /\ IdleStations
    /\ IdleForecast
    /\ IdleRadar
    /\ IdleBatch
    /\ IdleParse
    /\ task \in Tasks
    /\ tpc = "start"
    /\ texc = "none"
    /\ notifier_calls = <<>>
    /\ steps = <<>>
    /\ keys_configured \in BOOLEAN
    /\ started = [c \in Clients |-> FALSE]
    /\ future = [c \in Clients |-> "None"]
    /\ client = [c \in Clients |-> IF c = "firestore" THEN "client" ELSE "None"]
    /\ runs = 1
    /\ submitted = [c \in Clients |-> 0]

NextTask ==
    \/ StartPreload
    \/ ConstructServices
    \/ \E reachable \in BOOLEAN : TestConnection(reachable)
    \/ \E ok \in BOOLEAN : Fetch(ok)
    \/ \E c \in Clients, ok \in BOOLEAN : PreloadWorker(c, ok)
    \/ WaitForPreloading
    \/ \E ok \in BOOLEAN : Write(ok)
    \/ \E t \in Tasks : NewRun(t)

SpecTask == InitTask /\ [][NextTask]_vars

-----------------------------------------------------------------------------
(* parse_weather_description *)

(* A string is a sequence of tokens.  A token is one character, except that *)
(* each fixed marker of the template is a single token:                     *)
(*   "."    the clause delimiter '。'       "RAIN" '降雨機率'                *)
(*   "TEMP" '溫度攝氏'   "DEG" '度'   "TO" '至'   "HUM" '相對濕度'            *)
(*   "WIND" '風'   "SPD" '速' (so '風速' is <<"WIND", "SPD">>)   "LVL" '級'   *)
Period == <<".">>
RainMarker == <<"RAIN">>
TempMarker == <<"TEMP">>
Degree == <<"DEG">>
RangeTo == <<"TO">>
WindCue == <<"WIND">>
WindSpeedMarker == <<"WIND", "SPD">>
Level == <<"LVL">>
Dash == <<"-">>
HumidityMarker == <<"HUM">>

Digits == {"0", "1", "2", "3", "4", "5", "6", "7", "8", "9"}

DigitValue(t) ==
    CASE t = "0" -> 0 [] t = "1" -> 1 [] t = "2" -> 2 [] t = "3" -> 3
      [] t = "4" -> 4 [] t = "5" -> 5 [] t = "6" -> 6 [] t = "7" -> 7
      [] t = "8" -> 8 [] t = "9" -> 9

\* sub occurs in s at position i
OccursAt(s, sub, i) ==
    /\ i + Len(sub) - 1 <= Len(s)
    /\ \A j \in 1..Len(sub) : s[i + j - 1] = sub[j]

\* str.find, 1-based; 0 when sub does not occur
Find(s, sub) ==
    LET hits == {i \in 1..Len(s) : OccursAt(s, sub, i)}
    IN  IF hits = {} THEN 0
        ELSE CHOOSE i \in hits : \A j \in hits : i <= j

\* `sub in s`
Contains(s, sub) == Find(s, sub) # 0

\* str.split(sub)
RECURSIVE Split(_, _)
Split(s, sub) ==
    LET i == Find(s, sub)
    IN  IF i = 0 THEN <<s>>
        ELSE <<SubSeq(s, 1, i - 1)>> \o Split(SubSeq(s, i + Len(sub), Len(s)), sub)

\* str.strip()
RECURSIVE Strip(_)
Strip(s) ==
    IF s = <<>> THEN s
    ELSE IF Head(s) = " " THEN Strip(Tail(s))
    ELSE IF s[Len(s)] = " " THEN Strip(SubSeq(s, 1, Len(s) - 1))
    ELSE s

RECURSIVE ToNumber(_)
ToNumber(s) ==
    IF s = <<>> THEN 0
    ELSE 10 * ToNumber(SubSeq(s, 1, Len(s) - 1)) + DigitValue(s[Len(s)])

\* float(text.strip()) / int(text): a value, or ValueError
ParseNumber(s) ==
    LET t == Strip(s)
    IN  IF t # <<>> /\ \A i \in DOMAIN t : t[i] \in Digits
        THEN [ok |-> TRUE, value |-> ToNumber(t)]
        ELSE [ok |-> FALSE, value |-> 0]

\* ''.join(filter(str.isdigit, text))
RECURSIVE DigitsOf(_)
DigitsOf(s) ==
    IF s = <<>> THEN <<>>
    ELSE IF Head(s) \in Digits THEN <<Head(s)>> \o DigitsOf(Tail(s))
    ELSE DigitsOf(Tail(s))

\* the dict `data`
EmptyMap == <<>>

Put(d, k, v) == (k :> v) @@ d

Has(d, k) == k \in DOMAIN d

Continue(d) == [raised |-> "none", data |-> d]

Raise(e, d) == [raised |-> e, data |-> d]

\* `if '降雨機率' in part:`
RainBranch(part, parts, d) ==
    LET prob == Strip(Split(part, RainMarker)[2])
        d1 == Put(d, "rainProb", prob)
    IN  IF Len(parts) > 3 THEN Put(d1, "comfort", Strip(parts[4])) ELSE d1

\* `elif '溫度攝氏' in part:` with its try/except (ValueError, TypeError)
TempBranch(part, d) ==
    LET temp_text == Split(Split(part, TempMarker)[2], Degree)[1]
    IN  IF Contains(temp_text, RangeTo)
        THEN LET bounds == Split(temp_text, RangeTo)
             IN  IF Len(bounds) # 2 THEN d
                 ELSE LET lo == ParseNumber(bounds[1])
                          hi == ParseNumber(bounds[2])
                      IN  IF ~lo.ok THEN d
                          ELSE IF ~hi.ok THEN Put(d, "minTemp", lo.value)
                          ELSE Put(Put(d, "minTemp", lo.value), "maxTemp", hi.value)
        ELSE LET t == ParseNumber(temp_text)
             IN  IF t.ok THEN Put(d, "Temp", t.value) ELSE d

\* the exceptions the wind clause's `except` catches
WindCaught == {"ValueError", "TypeError"}

\* `elif '風' in part and '風速' in part:` with its try/except
WindBranch(part, d) ==
    LET direction_end == Find(part, WindCue) - 1
        d1 == IF direction_end > 0
              THEN Put(d, "windDirection", Strip(SubSeq(part, 1, direction_end)))
              ELSE d
        speed_text == Split(part, WindSpeedMarker)[2]
    IN  IF Contains(speed_text, Dash)
        THEN LET speed_range == Strip(Split(speed_text, Level)[1])
                 pieces == Split(speed_range, Dash)
             IN  IF Len(pieces) < 2
                 THEN \* speed_range.split('-')[1]
                      IF "IndexError" \in WindCaught THEN Continue(d1)
                                                     ELSE Raise("IndexError", d1)
                 ELSE LET max_speed == ParseNumber(pieces[2])
                      IN  IF max_speed.ok
                          THEN Continue(Put(d1, "windSpeed", max_speed.value))
                          ELSE Continue(d1)
        ELSE LET speed == DigitsOf(Split(speed_text, Level)[1])
             IN  IF speed # <<>>
                 THEN Continue(Put(d1, "windSpeed", ToNumber(speed)))
                 ELSE Continue(d1)

\* `elif '相對濕度' in part:`
HumidityBranch(part, d) ==
    LET humidity == Strip(Split(part, HumidityMarker)[2])
    IN  IF Contains(humidity, RangeTo)
        THEN Put(d, "humidity", Strip(Split(humidity, RangeTo)[2]))
        ELSE Put(d, "humidity", humidity)

\* the body of `for part in parts:`
ParsePart(part, parts, d) ==
    IF part = <<>> THEN Continue(d)
    ELSE IF Contains(part, RainMarker) THEN Continue(RainBranch(part, parts, d))
    ELSE IF Contains(part, TempMarker) THEN Continue(TempBranch(part, d))
    ELSE IF Contains(part, WindCue) /\ Contains(part, WindSpeedMarker)
         THEN WindBranch(part, d)
    ELSE IF Contains(part, HumidityMarker) THEN Continue(HumidityBranch(part, d))
    ELSE Continue(d)

\* `for part in parts:` from index i on
RECURSIVE ParseParts(_, _, _)
ParseParts(parts, i, d) ==
    IF i > Len(parts) THEN Continue(d)
    ELSE LET r == ParsePart(parts[i], parts, d)
         IN  IF r.raised # "none" THEN r
             ELSE ParseParts(parts, i + 1, r.data)

\* mutant: the outer handler catches the conversion errors only
CatchOnlyConversionErrors(e) ==
    IF e \in {"ValueError", "TypeError"}
    THEN [raised |-> FALSE, value |-> EmptyMap]
    ELSE [raised |-> TRUE, value |-> EmptyMap]

\* `except Exception as e:` ... `return {}`
CatchAll(e) == [raised |-> FALSE, value |-> EmptyMap]

\* mutant: the comfort clause is read from the same index in both cases
ComfortFallbackSameIndex(parts, d) ==
    IF ~Has(d, "rainProb") /\ Len(parts) > 3
    THEN Put(d, "comfort", Strip(parts[4]))
    ELSE d

\* `if 'rainProb' not in data and len(parts) > 2:`
ComfortFallback(parts, d) ==
    IF ~Has(d, "rainProb") /\ Len(parts) > 2
    THEN Put(d, "comfort", Strip(parts[3]))
    ELSE d

ParseWeatherDescription(is_str, text) ==
    IF ~is_str
    THEN CatchAll("AttributeError")     \* description.split does not exist
    ELSE LET parts == Split(text, Period)
             d0 == IF parts[1] # <<>>
                   THEN Put(EmptyMap, "weather", Strip(parts[1]))
                   ELSE EmptyMap
             r == ParseParts(parts, 1, d0)
         IN  IF r.raised # "none" THEN CatchAll(r.raised)
             ELSE [raised |-> FALSE, value |-> ComfortFallback(parts, r.data)]

\* the clauses the descriptions are built from
WeatherClause == <<"a", "b">>
RainClause == <<"RAIN", "2", "0", "%">>
ComfortClause == <<" ", "c", "d">>
TempClause == <<"TEMP", "2", "6", "TO", "3", "1", "DEG">>
TempNonNumeric == <<"TEMP", "a", "TO", "3", "1", "DEG">>
WindClause == <<"e", "WIND", "WIND", "SPD", "3", "-", "4", "LVL">>
WindNoUpper == <<"e", "WIND", "WIND", "SPD", "3", "-", "LVL">>
WindDashAfterLevel == <<"e", "WIND", "WIND", "SPD", "3", "LVL", "-">>
HumidityClause == <<"HUM", "7", "0", "TO", "9", "0", "%">>

ClauseSet == {<<>>, WeatherClause, RainClause, ComfortClause, TempClause,
              TempNonNumeric, WindClause, WindNoUpper, WindDashAfterLevel,
              HumidityClause}

\* '。'.join(clauses)
RECURSIVE Join(_)
Join(cs) ==
    IF cs = <<>> THEN <<>>
    ELSE IF Len(cs) = 1 THEN cs[1]
    ELSE cs[1] \o Period \o Join(Tail(cs))

Parse ==
    /\ ppc = "input"
    /\ parsed' = ParseWeatherDescription(desc_is_str, description)
    /\ ppc' = "done"
    /\ UNCHANGED <<description, desc_is_str>>
    /\ UNCHANGED nonParseVars

InitParse ==
    /\ IdlePreloader
    /\ IdleUpload
    /\ IdleSunrise
    /\ IdleRepeat
    /\ IdleStations
    /\ IdleForecast
    /\ IdleRadar
    /\ IdleBatch
    /\ IdleTask
    /\ \/ /\ desc_is_str = TRUE
          /\ \E n \in 0..MaxClauses :
                \E cs \in [1..n -> ClauseSet] : description = Join(cs)
       \/ /\ desc_is_str = FALSE
          /\ description = <<>>
    /\ ppc = "input"
    /\ parsed = [raised |-> FALSE, value |-> EmptyMap]

NextParse == Parse

SpecParse == InitParse /\ [][NextParse]_vars

-----------------------------------------------------------------------------
(* extract_radar_rainfall *)

(* Cell values are integers in hundredths (160 is 1.60).  Rounding to two    *)
(* decimals is rounding to the nearest integer; the float16 storage of the   *)
(* NumPy path is not modelled.                                               *)

FACTOR == 4

\* -99.0, the threshold of the invalid sentinel
InvalidThreshold == -9900

\* round(sum / n, 2) on hundredths: nearest, ties to even
Round2(sum, n) ==
    LET q == sum \div n
        r == sum % n
    IN  IF 2 * r < n THEN q
        ELSE IF 2 * r > n THEN q + 1
        ELSE IF q % 2 = 0 THEN q ELSE q + 1

RECURSIVE SumSeq(_)
SumSeq(s) == IF s = <<>> THEN 0 ELSE Head(s) + SumSeq(Tail(s))

\* mutant: the rows are taken to be as long as the cropped grid
BlockIndexesCroppedStride(x, y, dim_x) ==
    [k \in 1..(FACTOR * FACTOR) |->
        (y * FACTOR + ((k - 1) \div FACTOR)) * ((dim_x \div FACTOR) * FACTOR)
            + (x * FACTOR + ((k - 1) % FACTOR))]

\* the cells of the FACTOR x FACTOR block of output cell (x, y), as 0-based
\* flat indexes into the input, in scan order
BlockIndexes(x, y, dim_x) ==
    [k \in 1..(FACTOR * FACTOR) |->
        (y * FACTOR + ((k - 1) \div FACTOR)) * dim_x
            + (x * FACTOR + ((k - 1) % FACTOR))]

\* mutant: the sentinel is zeroed and the mean taken over the whole block
\* with an off-by-one divisor
VectorizedCellShortDivisor(data, dim_x, x, y) ==
    LET idx == BlockIndexes(x, y, dim_x)
        zeroed == [k \in DOMAIN idx |->
                     IF data[idx[k] + 1] <= InvalidThreshold THEN 0
                     ELSE data[idx[k] + 1]]
    IN  Round2(SumSeq(zeroed), FACTOR * FACTOR - 1)

\* NumPy path: original_array[original_array <= -99.0] = 0.0, then
\* reshape(new_dim_y, FACTOR, new_dim_x, FACTOR).mean(axis=(1, 3)) and np.round
VectorizedCell(data, dim_x, x, y) ==
    LET idx == BlockIndexes(x, y, dim_x)
        zeroed == [k \in DOMAIN idx |->
                     IF data[idx[k] + 1] <= InvalidThreshold THEN 0
                     ELSE data[idx[k] + 1]]
    IN  Round2(SumSeq(zeroed), FACTOR * FACTOR)

VectorizedGrid(data, dim_x, dim_y) ==
    LET new_dim_x == dim_x \div FACTOR
        new_dim_y == dim_y \div FACTOR
    IN  [i \in 1..(new_dim_x * new_dim_y) |->
            VectorizedCell(data, dim_x, (i - 1) % new_dim_x, (i - 1) \div new_dim_x)]

RECURSIVE SelectValid(_)
SelectValid(s) ==
    IF s = <<>> THEN <<>>
    ELSE IF Head(s) > InvalidThreshold THEN <<Head(s)>> \o SelectValid(Tail(s))
    ELSE SelectValid(Tail(s))

\* fallback: the nested loops collecting grid_values of one output cell
ScalarCell(data, dim_x, dim_y, x, y) ==
    LET idx == BlockIndexes(x, y, dim_x)
        grid_values == SelectValid([k \in DOMAIN idx |-> data[idx[k] + 1]])
    IN  IF grid_values = <<>> THEN 0
        ELSE Round2(SumSeq(grid_values), Len(grid_values))

ScalarGrid(data, dim_x, dim_y) ==
    LET new_dim_x == dim_x \div FACTOR
        new_dim_y == dim_y \div FACTOR
    IN  [i \in 1..(new_dim_x * new_dim_y) |->
            ScalarCell(data, dim_x, dim_y, (i - 1) % new_dim_x, (i - 1) \div new_dim_x)]

\* original_data.reshape(grid_dim_y, grid_dim_x) raises unless the sizes agree
ReshapeFails(data, dim_x, dim_y) == Len(data) # dim_x * dim_y

\* the fallback reads original_data[original_idx] for every cell of every
\* block: IndexError when the list is too short
FallbackIndexError(data, dim_x, dim_y) ==
    Len(data) < ((dim_y \div FACTOR) * FACTOR - 1) * dim_x + (dim_x \div FACTOR) * FACTOR

\* the nodes read by subscript: a missing one raises KeyError
NodeKeys == {"cwaopendata", "dataset", "contents", "content", "datasetInfo",
             "parameterSet"}

\* the grid parameters read with params.get(key, default)
ParamKeys == {"StartPointLongitude", "StartPointLatitude", "GridResolution",
              "GridDimensionX", "GridDimensionY"}

\* the defaults of params.get, in the units of ParamSets
DefaultStartLon == 1180
DefaultStartLat == 200
DefaultResolution == 125
DefaultDimX == 441
DefaultDimY == 561

\* params.get(key, default) on a payload that lacks the key absent
Get(absent, key, value, default) == IF absent = key THEN default ELSE value

\* step 4: the aggregation, vectorized first and the nested loops on failure
Aggregate(data, dim_x, dim_y) ==
    IF ~ReshapeFails(data, dim_x, dim_y)
    THEN [raised |-> "none", path |-> "numpy",
          rainfall_grid |-> VectorizedGrid(data, dim_x, dim_y)]
    ELSE IF FallbackIndexError(data, dim_x, dim_y)
    THEN [raised |-> "IndexError", path |-> "fallback", rainfall_grid |-> <<>>]
    ELSE [raised |-> "none", path |-> "fallback",
          rainfall_grid |-> ScalarGrid(data, dim_x, dim_y)]

ExtractRadarRainfall(absent, p, data, payload_dim_x, payload_dim_y, now) ==
    IF absent \in NodeKeys
    THEN [NoRadarOutput EXCEPT !.raised = "KeyError"]
    ELSE
        LET start_lon == Get(absent, "StartPointLongitude", p.StartPointLongitude,
                             DefaultStartLon)
            start_lat == Get(absent, "StartPointLatitude", p.StartPointLatitude,
                             DefaultStartLat)
            res_lon == Get(absent, "GridResolution", p.GridResolution,
                           DefaultResolution)
            res_lat == res_lon
            dim_x == Get(absent, "GridDimensionX", payload_dim_x, DefaultDimX)
            dim_y == Get(absent, "GridDimensionY", payload_dim_y, DefaultDimY)
            new_dim_x == dim_x \div FACTOR
            new_dim_y == dim_y \div FACTOR
            agg == Aggregate(data, dim_x, dim_y)
        IN  IF agg.raised # "none"
            THEN [NoRadarOutput EXCEPT !.raised = agg.raised, !.path = agg.path]
            ELSE [raised |-> "none", path |-> agg.path,
                  start_lon |-> start_lon, start_lat |-> start_lat,
                  res_lon |-> res_lon * FACTOR, res_lat |-> res_lat * FACTOR,
                  dim_x |-> new_dim_x, dim_y |-> new_dim_y,
                  timestamp |-> now,
                  rainfall_grid |-> agg.rainfall_grid]

ExtractRadar ==
    /\ rpc = "input"
    /\ radar_out' = ExtractRadarRainfall(missing, params, content,
                                         grid_dim_x, grid_dim_y, clock)
    /\ rpc' = "done"
    /\ UNCHANGED <<missing, params, grid_dim_x, grid_dim_y, content>>
    /\ UNCHANGED nonRadarVars

\* the rows the input grids are built from
\* a valid cell value, 16.00
Rain == 16 * 100
RowKinds == {"rain", "invalid", "mixed", "left"}

RowCell(k, c) ==
    CASE k = "rain" -> Rain
      [] k = "invalid" -> InvalidThreshold
      [] k = "mixed" -> IF c % 2 = 0 THEN Rain ELSE InvalidThreshold - 1
      [] k = "left" -> IF c < FACTOR THEN Rain ELSE 0

\* the row-major content of a grid whose row r is of kind rows[r]
GridContent(rows, dim_x) ==
    [i \in 1..(Len(rows) * dim_x) |->
        RowCell(rows[((i - 1) \div dim_x) + 1], (i - 1) % dim_x)]

\* the content string has one value too few, the right number, or one too many
Resize(data, delta) ==
    IF delta < 0 THEN SubSeq(data, 1, Len(data) - 1)
    ELSE IF delta > 0 THEN Append(data, Rain)
    ELSE data

InitRadar ==
    /\ IdlePreloader
    /\ IdleUpload
    /\ IdleSunrise
    /\ IdleRepeat
    /\ IdleStations
    /\ IdleForecast
    /\ IdleBatch
    /\ IdleTask
    /\ IdleParse
    /\ params \in ParamSets
    /\ grid_dim_x \in FACTOR..MaxDimX
    /\ grid_dim_y \in FACTOR..MaxDimY
    /\ \E rows \in [1..grid_dim_y -> RowKinds], delta \in {-1, 0, 1} :
          /\ content = Resize(GridContent(rows, grid_dim_x), delta)
          /\ missing \in (IF delta = 0 THEN NodeKeys \cup ParamKeys ELSE {})
                            \cup {"none"}
    /\ rpc = "input"
    /\ radar_out = NoRadarOutput

NextRadar == ExtractRadar

SpecRadar == InitRadar /\ [][NextRadar]_vars

-----------------------------------------------------------------------------
(* extract_three_hour_forecast / extract_weekly_forecast: the forecasts of   *)
(* one town.  time_map is the insertion-ordered dict keyed by start time.    *)

\* start-time tokens of the payload
T06 == "2024-01-01T06:00:00+08:00"
T09 == "2024-01-01T09:00:00+08:00"
T12 == "2024-01-01T12:00:00+08:00"

\* datetime.fromisoformat(start_time.replace('+08:00', '')).timestamp(),
\* in seconds after local midnight of 2024-01-01
Timestamp(t) ==
    CASE t = T06 -> 6 * 3600
      [] t = T09 -> 9 * 3600
      [] t = T12 -> 12 * 3600

\* the EndTime that goes with a StartTime
EndTimeOf(t) ==
    CASE t = T06 -> T09
      [] t = T09 -> T12
      [] t = T12 -> "2024-01-01T15:00:00+08:00"

\* None: the value a JSON null or a missing ElementValue gives
Null == <<>>

\* a float held by a dict that may also hold None
Float(n) == <<n>>

\* WeatherDescription texts
Descriptions == {WeatherClause, Join(<<WeatherClause, RainClause>>)}

\* the entries of the description element's Time list
DescriptionEntries ==
    {[StartTime |-> t, EndTime |-> EndTimeOf(t), WeatherDescription |-> d] :
        t \in {T06, T09}, d \in Descriptions}

\* the entries of a companion element's Time list: the time token (DataTime
\* in the three-hour payload, StartTime in the weekly one) and the
\* temperature text of ElementValue[0] (Null: no ElementValue, or no such key)
CompanionEntries ==
    {[time |-> t, value |-> v] :
        t \in {T06, T12}, v \in {Null, <<"2", "5">>, <<" ">>}}

\* forecast.update(weather_info)
Update(d, other) == other @@ d

\* `key in time_map`
InTimeMap(tm, key) == \E i \in DOMAIN tm : tm[i].key = key

\* the place of a key of time_map
IndexOf(tm, key) == CHOOSE i \in DOMAIN tm : tm[i].key = key

\* time_map[key] = value: a new key goes to the end, an old one keeps its place
SetItem(tm, key, value) ==
    IF InTimeMap(tm, key)
    THEN [tm EXCEPT ![IndexOf(tm, key)] = [key |-> key, value |-> value]]
    ELSE Append(tm, [key |-> key, value |-> value])

\* the fragment built from one description entry
Fragment(e) ==
    Update([startTime |-> e.StartTime, endTime |-> e.EndTime,
            timestamp |-> Timestamp(e.StartTime)],
           ParseWeatherDescription(TRUE, e.WeatherDescription).value)

\* one step of a loop over a list; the state is bound to a set element, so
\* that it is computed once per iteration
LoopState(rest, tm) == [rest |-> rest, tm |-> tm]

\* the first loop: one dict per time period of the description element
RECURSIVE BuildTimeMap(_, _)
BuildTimeMap(series, tm) ==
    IF series = <<>> THEN tm
    ELSE CHOOSE r \in
            {BuildTimeMap(st.rest, st.tm) :
                st \in {LoopState(Tail(series),
                                  SetItem(tm, Head(series).StartTime,
                                          Fragment(Head(series))))}} : TRUE

\* time_map[key][field] = v
SetField(tm, key, field, v) ==
    [tm EXCEPT ![IndexOf(tm, key)].value = Put(@, field, v)]

\* float(value) if value is not None else None
FloatOrNone(value) ==
    IF value = Null THEN Null ELSE Float(ParseNumber(value).value)

\* mutant: an unmatched companion entry gets a fragment of its own
RECURSIVE MergeCompanionAlways(_, _, _)
MergeCompanionAlways(series, field, tm) ==
    IF series = <<>> THEN [raised |-> "none", tm |-> tm]
    ELSE LET e == Head(series)
         IN  IF e.value # Null /\ ~ParseNumber(e.value).ok
             THEN [raised |-> "ValueError", tm |-> tm]
             ELSE CHOOSE r \in
                    {MergeCompanionAlways(st.rest, field, st.tm) :
                        st \in {LoopState(Tail(series),
                            IF InTimeMap(tm, e.time)
                            THEN SetField(tm, e.time, field, FloatOrNone(e.value))
                            ELSE SetItem(tm, e.time,
                                         Put(EmptyMap, field, FloatOrNone(e.value))))}}
                    : TRUE

\* a companion loop: `if start_time in time_map:
\*     time_map[start_time][field] = float(value) if value is not None else None`
RECURSIVE MergeCompanion(_, _, _)
MergeCompanion(series, field, tm) ==
    IF series = <<>> THEN [raised |-> "none", tm |-> tm]
    ELSE LET e == Head(series)
         IN  IF InTimeMap(tm, e.time) /\ e.value # Null /\ ~ParseNumber(e.value).ok
             THEN [raised |-> "ValueError", tm |-> tm]
             ELSE CHOOSE r \in
                    {MergeCompanion(st.rest, field, st.tm) :
                        st \in {LoopState(Tail(series),
                            IF InTimeMap(tm, e.time)
                            THEN SetField(tm, e.time, field, FloatOrNone(e.value))
                            ELSE tm)}}
                    : TRUE

\* list(time_map.values())
Values(tm) == [i \in DOMAIN tm |-> tm[i].value]

ForecastRaised(e) == [raised |-> e, forecasts |-> <<>>]

\* town_data['forecasts'] = list(time_map.values()), unless a loop raised
Finish(merged) ==
    IF merged.raised # "none" THEN ForecastRaised(merged.raised)
    ELSE [raised |-> "none", forecasts |-> Values(merged.tm)]

ExtractThreeHourForecast(series, comp) ==
    CHOOSE out \in
        {Finish(merged) :
            merged \in {MergeCompanion(comp, "apparent_temperature",
                                       BuildTimeMap(series, <<>>))}} : TRUE

\* the loop over the min apparent temperature element, reached when the
\* loop over the max one did not raise
WeeklyMinLoop(merged_max, comp_min) ==
    IF merged_max.raised # "none" THEN ForecastRaised(merged_max.raised)
    ELSE CHOOSE out \in
            {Finish(merged) :
                merged \in {MergeCompanion(comp_min, "min_apparent_temperature",
                                           merged_max.tm)}} : TRUE

ExtractWeeklyForecast(series, comp_max, comp_min) ==
    CHOOSE out \in
        {WeeklyMinLoop(merged_max, comp_min) :
            merged_max \in {MergeCompanion(comp_max, "max_apparent_temperature",
                                           BuildTimeMap(series, <<>>))}} : TRUE

ExtractForecast ==
    /\ fpc = "input"
    /\ forecast_out' =
          (IF fkind = "three_hour"
           THEN ExtractThreeHourForecast(time_series, companion)
           ELSE ExtractWeeklyForecast(time_series, companion, companion_min))
    /\ fpc' = "done"
    /\ UNCHANGED <<fkind, time_series, companion, companion_min>>
    /\ UNCHANGED nonForecastVars

\* all sequences over a set, up to a length
SeqsUpTo(S, n) == UNION {[1..k -> S] : k \in 0..n}

InitForecast ==
    /\ IdlePreloader
    /\ IdleUpload
    /\ IdleSunrise
    /\ IdleRepeat
    /\ IdleStations
    /\ IdleBatch
    /\ IdleTask
    /\ IdleParse
    /\ IdleRadar
    /\ fkind \in {"three_hour", "weekly"}
    /\ time_series \in SeqsUpTo(DescriptionEntries, MaxSeries)
    /\ companion \in SeqsUpTo(CompanionEntries, MaxSeries)
    /\ companion_min \in (IF fkind = "weekly"
                          THEN SeqsUpTo(CompanionEntries, 1) ELSE {<<>>})
    /\ fpc = "input"
    /\ forecast_out = [raised |-> "none", forecasts |-> <<>>]

NextForecast == ExtractForecast

SpecForecast == InitForecast /\ [][NextForecast]_vars

-----------------------------------------------------------------------------
(* extract_observation_data / extract_uv_data *)

\* the keys of a station read by subscript
StationKeys == {"GeoInfo", "WeatherElement", "StationId", "ObsTime"}

\* UVIndex texts of the payload; NoUVIndex: the element has no UVIndex
NoUVIndex == <<"absent">>
UVTexts == {<<"-", "9", "9">>, <<"0">>, <<"5">>}

\* int(text) on an optionally signed decimal text
IntOf(text) ==
    IF Head(text) = "-" THEN 0 - ToNumber(Tail(text)) ELSE ToNumber(text)

\* weather_element.get('UVIndex', '-99')
UVIndexOf(station) ==
    IF station.UVIndex = NoUVIndex THEN <<"-", "9", "9">> ELSE station.UVIndex

\* datetime.fromisoformat(text).timestamp() on a text that carries +08:00,
\* in seconds after 2024-01-01T00:00:00Z
AwareTimestamp(t) == Timestamp(t) - 8 * 3600

\* a station of the payload: its StationId, whether its coordinates list has
\* a WGS84 entry, its UVIndex, and the key it lacks ("none": no key missing)
StationSet(id) ==
    {[StationId |-> id, wgs84 |-> w, UVIndex |-> u, absent |-> a] :
        w \in BOOLEAN, u \in UVTexts \cup {NoUVIndex},
        a \in StationKeys \cup {"none"}}

\* what one iteration of the station loop does: raise, skip (continue) or append
ObservationStation(st) ==
    IF st.absent = "GeoInfo" THEN [do |-> "raise", e |-> "KeyError"]
    ELSE IF ~st.wgs84 THEN [do |-> "skip"]
    ELSE IF st.absent # "none" THEN [do |-> "raise", e |-> "KeyError"]
    ELSE [do |-> "append",
          data |-> [stationId |-> st.StationId,
                    timestamp |-> AwareTimestamp(T06)]]

UVStation(st) ==
    IF st.absent = "GeoInfo" THEN [do |-> "raise", e |-> "KeyError"]
    ELSE IF ~st.wgs84 THEN [do |-> "skip"]
    ELSE IF st.absent = "WeatherElement" THEN [do |-> "raise", e |-> "KeyError"]
    ELSE IF IntOf(UVIndexOf(st)) = -99 THEN [do |-> "skip"]
    ELSE IF st.absent # "none" THEN [do |-> "raise", e |-> "KeyError"]
    ELSE [do |-> "append",
          data |-> [stationId |-> st.StationId,
                    uvIndex |-> IntOf(UVIndexOf(st)),
                    timestamp |-> AwareTimestamp(T06)]]

\* the station loop inside the function-wide try: the first exception ends
\* the call, which logs and re-raises
RECURSIVE StationLoop(_, _, _)
StationLoop(k, list, processed_data) ==
    IF list = <<>> THEN [raised |-> "none", processed_data |-> processed_data]
    ELSE LET r == IF k = "uv" THEN UVStation(Head(list))
                  ELSE ObservationStation(Head(list))
         IN  IF r.do = "raise" THEN [raised |-> r.e, processed_data |-> <<>>]
             ELSE StationLoop(k, Tail(list),
                     IF r.do = "append" THEN Append(processed_data, r.data)
                     ELSE processed_data)

ExtractStations ==
    /\ spc = "input"
    /\ stations_out' = StationLoop(skind, stations, <<>>)
    /\ spc' = "done"
    /\ UNCHANGED <<skind, stations>>
    /\ UNCHANGED nonStationVars

InitStations ==
    /\ IdlePreloader
    /\ IdleUpload
    /\ IdleSunrise
    /\ IdleRepeat
    /\ IdleBatch
    /\ IdleTask
    /\ IdleParse
    /\ IdleRadar
    /\ IdleForecast
    /\ skind \in {"observation", "uv"}
    /\ \E n \in 0..MaxStations :
          stations \in {s \in [1..n -> UNION {StationSet(i) : i \in 1..n}] :
                           \A i \in 1..n : s[i].StationId = i}
    /\ spc = "input"
    /\ stations_out = [raised |-> "none", processed_data |-> <<>>]

NextStations == ExtractStations

SpecStations == InitStations /\ [][NextStations]_vars

-----------------------------------------------------------------------------
(* SunriseService.fetch_sunrise_data.  The nested location / time lists of   *)
(* a payload are one sequence of entries, in the order the loops visit them. *)

Counties == {<<"Taipei">>, <<"Tainan">>}

Dates == {<<"2024-01-01">>, <<"2024-01-02">>}

\* MoonRiseTime is not a key of the entry
NoMoonRise == <<"absent">>

SunEntries ==
    {[CountyName |-> c, Date |-> dt, SunRiseTime |-> r, SunSetTime |-> <<"17:20">>] :
        c \in Counties, dt \in Dates, r \in {<<"06:40">>, <<"06:41">>}}

MoonEntries ==
    {[CountyName |-> c, Date |-> dt, MoonRiseTime |-> r, MoonSetTime |-> <<"05:10">>] :
        c \in Counties, dt \in Dates, r \in {NoMoonRise, <<"18:30">>}}

\* f"{county_name}_{time_data['Date']}"
KeyOf(county_name, date) == county_name \o <<"_">> \o date

\* the first loop: one record per key of the sun payload, a later entry
\* with the same key replacing the earlier one
RECURSIVE SunLoop(_, _, _)
SunLoop(entries, combined_data, current_timestamp) ==
    IF entries = <<>> THEN combined_data
    ELSE LET e == Head(entries)
         IN  CHOOSE r \in
                {SunLoop(st.rest, st.tm, current_timestamp) :
                    st \in {LoopState(Tail(entries),
                        SetItem(combined_data, KeyOf(e.CountyName, e.Date),
                                [countyName |-> e.CountyName,
                                 date |-> e.Date,
                                 sunriseTime |-> e.SunRiseTime,
                                 sunsetTime |-> e.SunSetTime,
                                 timestamp |-> current_timestamp]))}} : TRUE

\* time_data.get("MoonRiseTime", "N/A")
MoonRiseOf(e) == IF e.MoonRiseTime = NoMoonRise THEN <<"N/A">> ELSE e.MoonRiseTime

\* combined_data[key]["moonriseTime"] = ...; combined_data[key]["moonsetTime"] = ...
SetMoonFields(combined_data, key, e) ==
    [combined_data EXCEPT
        ![IndexOf(combined_data, key)].value =
            Update(@, [moonriseTime |-> MoonRiseOf(e),
                       moonsetTime |-> e.MoonSetTime])]

\* mutant: a key of the moon payload alone gets a record too
RECURSIVE MoonLoopAddsKeys(_, _)
MoonLoopAddsKeys(entries, combined_data) ==
    IF entries = <<>> THEN combined_data
    ELSE LET e == Head(entries)
             key == KeyOf(e.CountyName, e.Date)
         IN  CHOOSE r \in
                {MoonLoopAddsKeys(st.rest, st.tm) :
                    st \in {LoopState(Tail(entries),
                        IF InTimeMap(combined_data, key)
                        THEN SetMoonFields(combined_data, key, e)
                        ELSE SetItem(combined_data, key,
                                     [countyName |-> e.CountyName, date |-> e.Date,
                                      moonriseTime |-> MoonRiseOf(e),
                                      moonsetTime |-> e.MoonSetTime]))}} : TRUE

\* the second loop: `if key in combined_data:` add the two moon fields
RECURSIVE MoonLoop(_, _)
MoonLoop(entries, combined_data) ==
    IF entries = <<>> THEN combined_data
    ELSE LET e == Head(entries)
             key == KeyOf(e.CountyName, e.Date)
         IN  CHOOSE r \in
                {MoonLoop(st.rest, st.tm) :
                    st \in {LoopState(Tail(entries),
                        IF InTimeMap(combined_data, key)
                        THEN SetMoonFields(combined_data, key, e)
                        ELSE combined_data)}} : TRUE

FetchSunriseData(present, sun, moon, now) ==
    IF ~present.sun \/ ~present.moon
    THEN [raised |-> "ValueError", records |-> <<>>]
    ELSE [raised |-> "none",
          records |-> Values(MoonLoop(moon, SunLoop(sun, <<>>, now)))]

FetchSunrise ==
    /\ sunpc = "input"
    /\ sunrise_out' = FetchSunriseData(records_present, sun_entries, moon_entries,
                                       clock)
    /\ sunpc' = "done"
    /\ UNCHANGED <<records_present, sun_entries, moon_entries>>
    /\ UNCHANGED nonSunriseVars

InitSunrise ==
    /\ IdlePreloader
    /\ IdleUpload
    /\ IdleBatch
    /\ IdleTask
    /\ IdleParse
    /\ IdleRadar
    /\ IdleForecast
    /\ IdleStations
    /\ IdleRepeat
    /\ records_present \in [{"sun", "moon"} -> BOOLEAN]
    /\ sun_entries \in (IF records_present.sun
                        THEN SeqsUpTo(SunEntries, MaxEntries) ELSE {<<>>})
    /\ moon_entries \in (IF records_present.moon
                         THEN SeqsUpTo(MoonEntries, MaxEntries) ELSE {<<>>})
    /\ sunpc = "input"
    /\ sunrise_out = [raised |-> "none", records |-> <<>>]

NextSunrise == FetchSunrise

SpecSunrise == InitSunrise /\ [][NextSunrise]_vars

-----------------------------------------------------------------------------
(* The normalizers invoked twice on one payload, the clock moving between    *)
(* the invocations.                                                          *)

\* time passes
Tick ==
    /\ clock < MaxClock
    /\ clock' = clock + 1
    /\ UNCHANGED <<repeated, first_out>>
    /\ UNCHANGED nonRepeatVars

RepeatRadar ==
    /\ rpc = "done"
    /\ ~repeated
    /\ first_out' = radar_out
    /\ radar_out' = ExtractRadarRainfall(missing, params, content,
                                         grid_dim_x, grid_dim_y, clock)
    /\ repeated' = TRUE
    /\ UNCHANGED <<missing, params, grid_dim_x, grid_dim_y, content, rpc, clock>>
    /\ UNCHANGED <<batchVars, taskVars, parseVars, forecastVars, stationVars,
                   sunriseVars, uploadVars, preloaderVars>>

RepeatSunrise ==
    /\ sunpc = "done"
    /\ ~repeated
    /\ first_out' = sunrise_out
    /\ sunrise_out' = FetchSunriseData(records_present, sun_entries, moon_entries,
                                       clock)
    /\ repeated' = TRUE
    /\ UNCHANGED <<records_present, sun_entries, moon_entries, sunpc, clock>>
    /\ UNCHANGED <<batchVars, taskVars, parseVars, radarVars, forecastVars,
                   stationVars, uploadVars, preloaderVars>>

RepeatForecast ==
    /\ fpc = "done"
    /\ ~repeated
    /\ first_out' = forecast_out
    /\ forecast_out' =
          (IF fkind = "three_hour"
           THEN ExtractThreeHourForecast(time_series, companion)
           ELSE ExtractWeeklyForecast(time_series, companion, companion_min))
    /\ repeated' = TRUE
    /\ UNCHANGED <<fkind, time_series, companion, companion_min, fpc, clock>>
    /\ UNCHANGED <<batchVars, taskVars, parseVars, radarVars, stationVars,
                   sunriseVars, uploadVars, preloaderVars>>

RepeatStations ==
    /\ spc = "done"
    /\ ~repeated
    /\ first_out' = stations_out
    /\ stations_out' = StationLoop(skind, stations, <<>>)
    /\ repeated' = TRUE
    /\ UNCHANGED <<skind, stations, spc, clock>>
    /\ UNCHANGED <<batchVars, taskVars, parseVars, radarVars, forecastVars,
                   sunriseVars, uploadVars, preloaderVars>>

\* one payload of one normalizer
InitRepeat ==
    \/ /\ grid_dim_x = FACTOR
       /\ grid_dim_y = FACTOR
       /\ missing = "none"
       /\ InitRadar
    \/ /\ InitSunrise
       /\ Len(sun_entries) <= 1
       /\ Len(moon_entries) <= 1
    \/ /\ InitForecast
       /\ Len(time_series) <= 1
       /\ Len(companion) <= 1
    \/ /\ InitStations
       /\ Len(stations) <= 1

NextRepeat ==
    \/ Tick
    \/ ExtractRadar
    \/ FetchSunrise
    \/ ExtractForecast
    \/ ExtractStations
    \/ RepeatRadar
    \/ RepeatSunrise
    \/ RepeatForecast
    \/ RepeatStations

SpecRepeat == InitRepeat /\ [][NextRepeat]_vars

-----------------------------------------------------------------------------
(* RadarPredict.save_to_r2 / TyphoonForecastImage.save_to_r2 called through  *)
(* RadarService.update_r2_radar / TyphoonForecastService.update_r2_image     *)

Uploaders == {"RadarPredict", "TyphoonForecastImage"}

\* the storage_path the service method passes
StoragePath(u) ==
    IF u = "RadarPredict" THEN "radar/forecast.json" ELSE "typhoon/latest.png"

\* what update_r2_radar / update_r2_image return
UploadStats == [success_count |-> 1, failed_count |-> 0, failed_items |-> <<>>]

\* an exception leaves save_to_r2 (logged and re-raised) and then the
\* service method (logged and re-raised)
UploadRaise(step, e) ==
    /\ ufailed' = step
    /\ uexc' = e
    /\ upc' = "raised"

\* s3 = get_r2_client()
GetR2Client(created) ==
    /\ upc = "client"
    /\ \/ /\ r2_cached
          /\ upc' = "bucket"
          /\ UNCHANGED <<r2_cached, ufailed, uexc>>
       \/ /\ ~r2_cached
          /\ ~r2_env.credentials
          /\ UploadRaise("client", "ValueError")
          /\ UNCHANGED r2_cached
       \/ /\ ~r2_cached
          /\ r2_env.credentials
          /\ IF created
             THEN /\ r2_cached' = TRUE
                  /\ upc' = "bucket"
                  /\ UNCHANGED <<ufailed, uexc>>
             ELSE /\ UploadRaise("client", "Exception")
                  /\ UNCHANGED r2_cached
    /\ UNCHANGED <<uploader, r2_env, put_attempts, put_done, upload_result, uploads,
                   stored>>
    /\ UNCHANGED nonUploadVars

\* bucket_name = os.getenv('R2_BUCKET_NAME'); `if not bucket_name: raise`
BucketLookup ==
    /\ upc = "bucket"
    /\ IF r2_env.bucket
       THEN /\ upc' = (IF uploader = "RadarPredict" THEN "serialize" ELSE "put")
            /\ UNCHANGED <<ufailed, uexc>>
       ELSE UploadRaise("bucket", "ValueError")
    /\ UNCHANGED <<uploader, r2_env, r2_cached, put_attempts, put_done,
                   upload_result, uploads, stored>>
    /\ UNCHANGED nonUploadVars

\* json.dumps and the gzip compression of RadarPredict.save_to_r2
Serialize(ok) ==
    /\ upc = "serialize"
    /\ IF ok
       THEN /\ upc' = "put"
            /\ UNCHANGED <<ufailed, uexc>>
       ELSE UploadRaise("serialize", "TypeError")
    /\ UNCHANGED <<uploader, r2_env, r2_cached, put_attempts, put_done,
                   upload_result, uploads, stored>>
    /\ UNCHANGED nonUploadVars

\* mutant: a failed put_object is tried again
PutObjectRetries(ok) ==
    /\ upc = "put"
    /\ put_attempts < 3
    /\ put_attempts' = put_attempts + 1
    /\ IF ok
       THEN /\ put_done' = TRUE
            /\ stored' = stored \cup {StoragePath(uploader)}
            /\ upload_result' = UploadStats
            /\ upc' = "returned"
            /\ UNCHANGED <<ufailed, uexc>>
       ELSE /\ UNCHANGED <<put_done, upload_result, upc, ufailed, uexc, stored>>
    /\ UNCHANGED <<uploader, r2_env, r2_cached, uploads>>
    /\ UNCHANGED nonUploadVars

\* s3.put_object(...), then the return of save_to_r2 and of the service
\* method with its stats
PutObject(ok) ==
    /\ upc = "put"
    /\ put_attempts' = put_attempts + 1
    /\ IF ok
       THEN /\ put_done' = TRUE
            /\ stored' = stored \cup {StoragePath(uploader)}
            /\ upload_result' = UploadStats
            /\ upc' = "returned"
            /\ UNCHANGED <<ufailed, uexc>>
       ELSE /\ UploadRaise("put_object", "ClientError")
            /\ UNCHANGED <<put_done, upload_result, stored>>
    /\ UNCHANGED <<uploader, r2_env, r2_cached, uploads>>
    /\ UNCHANGED nonUploadVars

\* the next call in the same process: _r2_client stays cached
NewUpload(u) ==
    /\ upc \in {"returned", "raised"}
    /\ uploads < MaxUploads
    /\ uploads' = uploads + 1
    /\ uploader' = u
    /\ upc' = "client"
    /\ put_attempts' = 0
    /\ put_done' = FALSE
    /\ ufailed' = "none"
    /\ uexc' = "none"
    /\ upload_result' = NoResult
    /\ UNCHANGED <<r2_env, r2_cached, stored>>
    /\ UNCHANGED nonUploadVars

InitUpload ==
    /\ IdleBatch
    /\ IdleTask
    /\ IdleParse
    /\ IdleRadar
    /\ IdleForecast
    /\ IdleStations
    /\ IdleSunrise
    /\ IdleRepeat
    /\ IdlePreloader
    /\ uploader \in Uploaders
    /\ upc = "client"
    /\ r2_env \in [{"credentials", "bucket"} -> BOOLEAN]
    /\ r2_cached = FALSE
    /\ put_attempts = 0
    /\ put_done = FALSE
    /\ ufailed = "none"
    /\ uexc = "none"
    /\ upload_result = NoResult
    /\ uploads = 1
    /\ stored = {}

NextUpload ==
    \/ \E created \in BOOLEAN : GetR2Client(created)
    \/ BucketLookup
    \/ \E ok \in BOOLEAN : Serialize(ok)
    \/ \E ok \in BOOLEAN : PutObject(ok)
    \/ \E u \in Uploaders : NewUpload(u)

SpecUpload == InitUpload /\ [][NextUpload]_vars

-----------------------------------------------------------------------------
(* The ClientPreloader driven through its API, and get_r2_client on the     *)
(* main thread and on the worker thread                                     *)

\* the variables of a task run, which no ClientPreloader call touches
runVars == <<task, tpc, texc, notifier_calls, steps, keys_configured, runs>>

\* start_firestore_preloading() / start_r2_preloading() called by the main thread
StartClientPreloading(c) ==
    /\ caller = "calls"
    /\ api_calls < MaxCalls
    /\ StartPreloading(c)
    /\ api_calls' = api_calls + 1
    /\ UNCHANGED <<client, worker, caller, target, waited, built, assigned,
                   returned, overlapped>>
    /\ UNCHANGED <<runVars, nonPreloaderVars>>

\* start_preloading(): its first statement, self.start_firestore_preloading()
StartPreloadingFirestore ==
    /\ caller = "calls"
    /\ api_calls < MaxCalls
    /\ StartPreloading("firestore")
    /\ api_calls' = api_calls + 1
    /\ caller' = "start_r2"
    /\ UNCHANGED <<client, worker, target, waited, built, assigned,
                   returned, overlapped>>
    /\ UNCHANGED <<runVars, nonPreloaderVars>>

\* start_preloading(): its second statement, self.start_r2_preloading()
StartPreloadingR2 ==
    /\ caller = "start_r2"
    /\ StartPreloading("r2")
    /\ caller' = "calls"
    /\ UNCHANGED <<client, worker, target, api_calls, waited, built, assigned,
                   returned, overlapped>>
    /\ UNCHANGED <<runVars, nonPreloaderVars>>

\* wait_for_firestore(timeout) / wait_for_r2(timeout) called by the main
\* thread, which then goes on to its write
Wait(c) ==
    /\ caller = "calls"
    /\ api_calls < MaxCalls
    /\ api_calls' = api_calls + 1
    /\ waited' = Append(waited, [client |-> c, found |-> WaitFor(c).log,
                                 raised |-> WaitFor(c).raised])
    /\ caller' = IF WaitFor(c).raised = "none" THEN "write" ELSE "raised"
    /\ target' = c
    /\ UNCHANGED <<started, future, client, submitted, worker, built,
                   assigned, returned, overlapped>>
    /\ UNCHANGED <<runVars, nonPreloaderVars>>

\* the write of a Firestore task: get_firestore_client() returns _db_client,
\* which exists since the import of database.models
MainGetFirestoreClient ==
    /\ caller = "write"
    /\ target = "firestore"
    /\ caller' = "calls"
    /\ UNCHANGED <<started, future, client, submitted, worker, target, api_calls,
                   waited, built, assigned, returned, overlapped>>
    /\ UNCHANGED <<runVars, nonPreloaderVars>>

\* save_to_r2 on the main thread: `if _r2_client is None:` of get_r2_client
MainCheck ==
    /\ caller = "write"
    /\ target = "r2"
    /\ IF client["r2"] # "None"
       THEN /\ caller' = "return"
            /\ overlapped' = overlapped
       ELSE /\ caller' = "construct"
            /\ overlapped' = (overlapped \/ worker["r2"] \in {"construct", "assign"})
    /\ UNCHANGED <<started, future, client, submitted, worker, target, api_calls,
                   waited, built, assigned, returned>>
    /\ UNCHANGED <<runVars, nonPreloaderVars>>

\* the credential check and boto3.client(...) on the main thread; a failure
\* is re-raised and ends the write
MainConstruct(ok) ==
    /\ caller = "construct"
    /\ IF ok
       THEN /\ built' = built \cup {"inline"}
            /\ caller' = "assign"
       ELSE /\ built' = built
            /\ caller' = "calls"
    /\ UNCHANGED <<started, future, client, submitted, worker, target, api_calls,
                   waited, assigned, returned, overlapped>>
    /\ UNCHANGED <<runVars, nonPreloaderVars>>

\* `_r2_client = ...`: the store into the module global, main thread
MainAssign ==
    /\ caller = "assign"
    /\ client' = [client EXCEPT !["r2"] = "inline"]
    /\ assigned' = Append(assigned, "inline")
    /\ caller' = "return"
    /\ UNCHANGED <<started, future, submitted, worker, target, api_calls,
                   waited, built, returned, overlapped>>
    /\ UNCHANGED <<runVars, nonPreloaderVars>>

\* `return _r2_client`: reads the module global again, main thread
MainReturn ==
    /\ caller = "return"
    /\ returned' = returned \cup {[thread |-> "main", instance |-> client["r2"]]}
    /\ caller' = "calls"
    /\ UNCHANGED <<started, future, client, submitted, worker, target, api_calls,
                   waited, built, assigned, overlapped>>
    /\ UNCHANGED <<runVars, nonPreloaderVars>>

\* mutant: the job builds a client without looking at the cached handle
JobCheckIgnoresCache(c) ==
    /\ future[c] = "running"
    /\ worker[c] = "idle"
    /\ IF c = "firestore"
       THEN /\ worker' = [worker EXCEPT ![c] = "return"]
            /\ overlapped' = overlapped
       ELSE /\ worker' = [worker EXCEPT ![c] = "construct"]
            /\ overlapped' = (overlapped \/ caller \in {"construct", "assign"})
    /\ UNCHANGED <<started, future, client, submitted, caller, target, api_calls,
                   waited, built, assigned, returned>>
    /\ UNCHANGED <<runVars, nonPreloaderVars>>

\* _preload_firestore / _preload_r2 picked up by a worker thread: the null
\* check of get_firestore_client / get_r2_client
JobCheck(c) ==
    /\ future[c] = "running"
    /\ worker[c] = "idle"
    /\ IF client[c] # "None"
       THEN /\ worker' = [worker EXCEPT ![c] = "return"]
            /\ overlapped' = overlapped
       ELSE /\ worker' = [worker EXCEPT ![c] = "construct"]
            /\ overlapped' = (overlapped \/ caller \in {"construct", "assign"})
    /\ UNCHANGED <<started, future, client, submitted, caller, target, api_calls,
                   waited, built, assigned, returned>>
    /\ UNCHANGED <<runVars, nonPreloaderVars>>

\* the credential check and boto3.client(...) on the worker thread; a
\* failure is re-raised by get_r2_client, caught by _preload_r2, which
\* returns None
JobConstruct(ok) ==
    /\ worker["r2"] = "construct"
    /\ IF ok
       THEN /\ built' = built \cup {"preloaded"}
            /\ worker' = [worker EXCEPT !["r2"] = "assign"]
            /\ future' = future
       ELSE /\ built' = built
            /\ worker' = [worker EXCEPT !["r2"] = "done"]
            /\ future' = [future EXCEPT !["r2"] = "failed"]
    /\ UNCHANGED <<started, client, submitted, caller, target, api_calls,
                   waited, assigned, returned, overlapped>>
    /\ UNCHANGED <<runVars, nonPreloaderVars>>

\* `_r2_client = ...`: the store into the module global, worker thread
JobAssign ==
    /\ worker["r2"] = "assign"
    /\ client' = [client EXCEPT !["r2"] = "preloaded"]
    /\ assigned' = Append(assigned, "preloaded")
    /\ worker' = [worker EXCEPT !["r2"] = "return"]
    /\ UNCHANGED <<started, future, submitted, caller, target, api_calls,
                   waited, built, returned, overlapped>>
    /\ UNCHANGED <<runVars, nonPreloaderVars>>

\* `return _db_client` / `return _r2_client` and `return client` of the job:
\* the value read from the module global becomes the result of the future
JobReturn(c) ==
    /\ worker[c] = "return"
    /\ future' = [future EXCEPT ![c] = client[c]]
    /\ returned' = IF c = "r2"
                   THEN returned \cup {[thread |-> "worker", instance |-> client[c]]}
                   ELSE returned
    /\ worker' = [worker EXCEPT ![c] = "done"]
    /\ UNCHANGED <<started, client, submitted, caller, target, api_calls,
                   waited, built, assigned, overlapped>>
    /\ UNCHANGED <<runVars, nonPreloaderVars>>

\* the process after `import main`: _db_client built, the ClientPreloader
\* fresh, the main thread about to use the API
InitPreloader ==
    /\ IdleBatch
    /\ IdleParse
    /\ IdleRadar
    /\ IdleForecast
    /\ IdleStations
    /\ IdleSunrise
    /\ IdleRepeat
    /\ IdleUpload
    /\ task = "update_current_weather"
    /\ tpc = "idle"
    /\ texc = "none"
    /\ notifier_calls = <<>>
    /\ steps = <<>>
    /\ keys_configured = TRUE
    /\ runs = 0
    /\ started = [c \in Clients |-> FALSE]
    /\ future = [c \in Clients |-> "None"]
    /\ client = [c \in Clients |-> IF c = "firestore" THEN "client" ELSE "None"]
    /\ submitted = [c \in Clients |-> 0]
    /\ worker = [c \in Clients |-> "idle"]
    /\ caller = "calls"
    /\ target = "firestore"
    /\ api_calls = 0
    /\ waited = <<>>
    /\ built = {}
    /\ assigned = <<>>
    /\ returned = {}
    /\ overlapped = FALSE

NextPreloader ==
    \/ \E c \in Clients : StartClientPreloading(c)
    \/ StartPreloadingFirestore
    \/ StartPreloadingR2
    \/ \E c \in Clients : Wait(c)
    \/ MainGetFirestoreClient
    \/ MainCheck
    \/ \E ok \in BOOLEAN : MainConstruct(ok)
    \/ MainAssign
    \/ MainReturn
    \/ \E c \in Clients : JobCheck(c)
    \/ \E ok \in BOOLEAN : JobConstruct(ok)
    \/ JobAssign
    \/ \E c \in Clients : JobReturn(c)

SpecPreloader == InitPreloader /\ [][NextPreloader]_vars

-----------------------------------------------------------------------------
(* Properties of batch_save *)

Terminal == bpc \in {"returned", "raised"}

N == Len(items)

Ceil(a, b) == (a + b - 1) \div b

\* the loop iterations recorded so far staged their item and every commit worked
StagedOk(ev) ==
    /\ ev.build = "ok"
    /\ ev.set = "ok"
    /\ ev.commit \in {"none", "ok"}

\* items 1..k-1 staged and batch.set of item k raised a quota-class error
QuotaAtSet(k) ==
    /\ Len(trace) = k
    /\ trace[k].item = k
    /\ trace[k].set \in QuotaErrors
    /\ \A j \in 1..(k - 1) : StagedOk(trace[j])

\* C1 (as claimed): when item k raises a quota-class error after items
\* 1..k-1 staged, the call ends raising that error with
\* success_count = k-1 and failed_count = N-(k-1).
C1_QuotaAccounting ==
    \A k \in 1..N :
        QuotaAtSet(k) =>
            /\ bpc = "raised"
            /\ exc = trace[k].set
            /\ stats.success_count = k - 1
            /\ stats.failed_count = N - (k - 1)

QuotaRaisedBy(e) ==
    \E j \in DOMAIN trace : trace[j].set = e \/ trace[j].commit = e

\* C2: once batch.set or batch.commit (in the loop or at the final flush) has
\* raised a quota-class error, the call has ended by raising that same
\* exception and nothing was returned to the caller.
C2_QuotaRaisesNoResult ==
    \A e \in QuotaErrors :
        QuotaRaisedBy(e) =>
            /\ bpc = "raised"
            /\ exc = e
            /\ result = NoResult

\* a quota error at the final flush, after two items were staged
C2_Witness ==
    /\ bpc = "raised"
    /\ Len(trace) = 3
    /\ trace[3].item = 0
    /\ trace[3].commit \in QuotaErrors
    /\ StagedOk(trace[1])
    /\ StagedOk(trace[2])

\* building or staging item k raised a generic exception
GenericAt(k) ==
    /\ k \in DOMAIN trace
    /\ trace[k].item = k
    /\ \/ trace[k].build = "Exception"
       \/ trace[k].set = "Exception"

\* nothing but generic build/stage errors happened in the call
OnlyGenericItemErrors ==
    /\ \A j \in DOMAIN trace :
          /\ trace[j].set \in {"none", "ok", "Exception"}
          /\ trace[j].commit \in {"none", "ok"}
    /\ \E k \in 1..N : GenericAt(k)

\* C3: when the only failures of a call are generic errors at building or
\* staging, the call returns its stats, every failing item k has an entry
\* in failed_items with its identity fields and the error text,
\* failed_count >= 1, and every item after k was still processed: the ones
\* that staged are the ones counted in success_count.
C3_GenericIsolated ==
    (Terminal /\ OnlyGenericItemErrors) =>
        /\ bpc = "returned"
        /\ result = stats
        /\ stats.failed_count >= 1
        /\ Len(trace) >= N
        /\ \A k \in 1..N :
              /\ trace[k].item = k
              /\ trace[k].build # "skipped"
              /\ items[k].wellFormed => trace[k].set # "none"
              /\ GenericAt(k) =>
                    \E f \in DOMAIN stats.failed_items :
                        stats.failed_items[f] =
                            FailedEntry(k, GenericIdentityFields(kind),
                                        ErrorText("Exception"))
        /\ stats.success_count =
              Cardinality({k \in 1..N : trace[k].set = "ok"})

\* batch.set of item 1 raised a generic error and item 2 was staged afterwards
C3_Witness ==
    /\ bpc = "returned"
    /\ N >= 2
    /\ OnlyGenericItemErrors
    /\ trace[1].set = "Exception"
    /\ StagedOk(trace[2])
    /\ stats.success_count >= 1

\* C4 (as claimed): success_count + failed_count never exceeds total_attempts.
C4_CountsBounded ==
    stats.success_count + stats.failed_count <= stats.total_attempts

\* no build, set or commit raised
NoFailure ==
    /\ exc = "none"
    /\ \A j \in DOMAIN trace :
          /\ trace[j].build \in {"none", "ok"}
          /\ trace[j].set \in {"none", "ok"}
          /\ trace[j].commit \in {"none", "ok"}

CommittedPlaces(i) ==
    {p \in (DOMAIN commits) \X (1..(MaxItems + 2)) :
        /\ p[2] \in DOMAIN commits[p[1]]
        /\ commits[p[1]][p[2]] = i}

\* C5: when nothing raises, the call returns success_count = N,
\* failed_count = 0, no failed_items; it made ceil(N/B) commits, each of at
\* most B writes (all but the last of exactly B), and every item is in
\* exactly one committed batch.
C5_AllCommitted ==
    (Terminal /\ NoFailure) =>
        /\ bpc = "returned"
        /\ result = stats
        /\ stats.success_count = N
        /\ stats.failed_count = 0
        /\ stats.failed_items = <<>>
        /\ Len(commits) = Ceil(N, batch_size)
        /\ \A j \in DOMAIN commits :
              /\ Len(commits[j]) <= batch_size
              /\ j < Len(commits) => Len(commits[j]) = batch_size
        /\ \A i \in 1..N : Cardinality(CommittedPlaces(i)) = 1

\* three items with batch_size 2: one full commit in the loop, one at the end
C5_Witness ==
    /\ bpc = "returned"
    /\ NoFailure
    /\ N = 3
    /\ batch_size = 2
    /\ commits = << <<1, 2>>, <<3>> >>

-----------------------------------------------------------------------------
(* Properties of the tasks *)

TaskEnded == tpc \in {"returned", "raised"}

\* C6 (as claimed): a run that has ended has called the notifier exactly
\* once: notify_success if the write step completed, notify_failure otherwise.
C6_ExactlyOneNotification ==
    TaskEnded =>
        /\ Len(notifier_calls) = 1
        /\ notifier_calls[1].method =
              (IF \E i \in DOMAIN steps : steps[i] = "write"
               THEN "notify_success" ELSE "notify_failure")

-----------------------------------------------------------------------------
(* Properties of parse_weather_description *)

Clauses == Split(description, Period)

HasRainClause == \E i \in DOMAIN Clauses : Contains(Clauses[i], RainMarker)

\* C7 (as claimed): with a rain-probability clause anywhere in the sentence
\* comfort is the trimmed clause at index 3; without one, and with at least
\* 3 clauses, comfort is the trimmed clause at index 2.
C7_ComfortPosition ==
    (ppc = "done" /\ desc_is_str) =>
        /\ (HasRainClause /\ Len(Clauses) >= 4) =>
              /\ Has(parsed.value, "comfort")
              /\ parsed.value["comfort"] = Strip(Clauses[4])
        /\ (~HasRainClause /\ Len(Clauses) >= 3) =>
              /\ Has(parsed.value, "comfort")
              /\ parsed.value["comfort"] = Strip(Clauses[3])

FieldNames == {"weather", "rainProb", "comfort", "minTemp", "maxTemp", "Temp",
               "windDirection", "windSpeed", "humidity"}

\* the inputs on which the parse fails as a whole: not a string, or a wind
\* clause whose '-' comes after the level sign
WholeFailure ==
    \/ ~desc_is_str
    \/ \E i \in DOMAIN Clauses : Clauses[i] = WindDashAfterLevel

\* C8: the call never raises; it returns a mapping of the known fields, and
\* the empty mapping when the parse fails as a whole.
C8_NeverRaises ==
    ppc = "done" =>
        /\ ~parsed.raised
        /\ DOMAIN parsed.value \subseteq FieldNames
        /\ WholeFailure => parsed.value = EmptyMap

\* a sentence whose wind clause makes the parse fail as a whole
C8_Witness ==
    /\ ppc = "done"
    /\ desc_is_str
    /\ Len(Clauses) >= 3
    /\ Clauses[1] = WeatherClause
    /\ Clauses[3] = WindDashAfterLevel
    /\ ~parsed.raised
    /\ parsed.value = EmptyMap

\* the fields a well-formed clause yields
ExpectedFields(c) ==
    IF c = RainClause THEN [rainProb |-> <<"2", "0", "%">>]
    ELSE IF c = TempClause THEN [minTemp |-> 26, maxTemp |-> 31]
    ELSE IF c = WindClause THEN [windDirection |-> <<"e">>, windSpeed |-> 4]
    ELSE IF c = HumidityClause THEN [humidity |-> <<"9", "0", "%">>]
    ELSE EmptyMap

FailingClauses == {TempNonNumeric, WindNoUpper, WindDashAfterLevel}

\* C9 (as claimed): when a temperature or wind clause fails to parse, the
\* fields of every other clause are still in the returned mapping.
C9_ClauseFailureIsolated ==
    (/\ ppc = "done"
     /\ desc_is_str
     /\ \E i \in DOMAIN Clauses : Clauses[i] \in FailingClauses) =>
        /\ (Clauses[1] # <<>> /\ Clauses[1] \notin FailingClauses) =>
              /\ Has(parsed.value, "weather")
              /\ parsed.value["weather"] = Strip(Clauses[1])
        /\ \A i \in DOMAIN Clauses :
              \A k \in DOMAIN ExpectedFields(Clauses[i]) :
                  /\ Has(parsed.value, k)
                  /\ parsed.value[k] = ExpectedFields(Clauses[i])[k]

-----------------------------------------------------------------------------
(* Properties of extract_radar_rainfall *)

\* the valid raw values of the 4x4 block at rows 4y..4y+3, columns 4x..4x+3
ValidOfBlock(x, y) ==
    LET cells == {<<r, c>> \in (4 * y..4 * y + 3) \X (4 * x..4 * x + 3) :
                     content[r * grid_dim_x + c + 1] > InvalidThreshold}
    IN  [n |-> Cardinality(cells),
         sum |-> SumSeq([k \in 1..16 |->
                    LET r == 4 * y + ((k - 1) \div 4)
                        c == 4 * x + ((k - 1) % 4)
                    IN  IF <<r, c>> \in cells
                        THEN content[r * grid_dim_x + c + 1] ELSE 0])]

\* C10 (as claimed): on a grid of dim_x * dim_y cells every output cell is
\* the rounded mean of the valid cells of its block only; invalid cells
\* count neither in the sum nor in the divisor.
C10_MeanOfValidCells ==
    (/\ rpc = "done"
     /\ missing = "none"
     /\ Len(content) = grid_dim_x * grid_dim_y
     /\ radar_out.raised = "none") =>
        \A x \in 0..(radar_out.dim_x - 1), y \in 0..(radar_out.dim_y - 1) :
            LET v == ValidOfBlock(x, y)
            IN  radar_out.rainfall_grid[y * radar_out.dim_x + x + 1] =
                    (IF v.n = 0 THEN 0 ELSE Round2(v.sum, v.n))

\* the grid the scalar nested loops compute for this payload
ScalarReference == ScalarGrid(content, grid_dim_x, grid_dim_y)

\* C11 (as claimed): on every grid the vectorized path and the scalar
\* nested-loop fallback give the same rainfall_grid.
C11_PathsAgree ==
    (/\ rpc = "done"
     /\ missing = "none"
     /\ radar_out.path = "numpy") =>
        /\ radar_out.raised = "none"
        /\ radar_out.rainfall_grid = ScalarReference

\* the payload's grid cut to the rows and columns below 4 * (dim // 4)
Cropped ==
    LET crop_x == (grid_dim_x \div 4) * 4
        crop_y == (grid_dim_y \div 4) * 4
    IN  [i \in 1..(crop_x * crop_y) |->
            content[((i - 1) \div crop_x) * grid_dim_x + ((i - 1) % crop_x) + 1]]

\* C12: for a payload whose content has dim_x * dim_y values the output has
\* dim_x // 4 by dim_y // 4 cells, as many grid values as cells, four times
\* the resolution and the origin of the payload; the grid is the one
\* obtained from the payload cut to 4 * (dim // 4) rows and columns, so the
\* cells beyond them influence nothing.
C12_OutputShape ==
    (/\ rpc = "done"
     /\ missing = "none"
     /\ Len(content) = grid_dim_x * grid_dim_y) =>
        /\ radar_out.raised = "none"
        /\ radar_out.dim_x = grid_dim_x \div 4
        /\ radar_out.dim_y = grid_dim_y \div 4
        /\ Len(radar_out.rainfall_grid) = radar_out.dim_x * radar_out.dim_y
        /\ radar_out.res_lon = 4 * params.GridResolution
        /\ radar_out.res_lat = 4 * params.GridResolution
        /\ radar_out.start_lon = params.StartPointLongitude
        /\ radar_out.start_lat = params.StartPointLatitude
        /\ radar_out.rainfall_grid =
              Aggregate(Cropped, (grid_dim_x \div 4) * 4,
                        (grid_dim_y \div 4) * 4).rainfall_grid

\* a 7 x 5 grid, neither dimension a multiple of 4, whose cells beyond
\* column 3 and row 3 differ from the aggregated block
C12_Witness ==
    /\ rpc = "done"
    /\ missing = "none"
    /\ grid_dim_x = 7
    /\ grid_dim_y = 5
    /\ Len(content) = 35
    /\ content[1] = Rain
    /\ content[5] = 0
    /\ content[29] = InvalidThreshold
    /\ radar_out.rainfall_grid = <<Rain>>
    /\ params.GridResolution = 250

\* C13 (as claimed): a payload that lacks a grid-parameter key, or one of
\* the nodes that enclose them, makes the call raise; no grid is produced.
C13_MissingKeyRaises ==
    (rpc = "done" /\ missing # "none") =>
        /\ radar_out.raised # "none"
        /\ radar_out.rainfall_grid = <<>>

-----------------------------------------------------------------------------
(* Properties of extract_three_hour_forecast / extract_weekly_forecast *)

ForecastReturned == fpc = "done" /\ forecast_out.raised = "none"

\* the derived fields of a fragment and the companion series they come from
DerivedFields ==
    IF fkind = "three_hour"
    THEN {<<"apparent_temperature", companion>>}
    ELSE {<<"max_apparent_temperature", companion>>,
          <<"min_apparent_temperature", companion_min>>}

\* the companion entries for start-time token t
Matching(comp, t) == {i \in DOMAIN comp : comp[i].time = t}

Last(I) == CHOOSE i \in I : \A j \in I : j <= i

\* C14 (as claimed): every fragment carries each derived field of its
\* extractor, with the null value when the companion series has no entry or
\* no value for the fragment's start time.
C14_DerivedFieldsPresent ==
    ForecastReturned =>
        \A i \in DOMAIN forecast_out.forecasts :
            LET f == forecast_out.forecasts[i]
            IN  \A df \in DerivedFields :
                    /\ df[1] \in DOMAIN f
                    /\ (\/ Matching(df[2], f.startTime) = {}
                        \/ df[2][Last(Matching(df[2], f.startTime))].value = Null)
                          => f[df[1]] = Null

\* the start-time tokens of the description series
DescriptionTokens == {time_series[i].StartTime : i \in DOMAIN time_series}

\* the last description entry with start-time token t
LastDescription(t) ==
    time_series[Last({i \in DOMAIN time_series : time_series[i].StartTime = t})]

\* the derived fields token t gets from the companion entries that match it
DerivedOf(t) ==
    LET hit == {df \in DerivedFields : Matching(df[2], t) # {}}
    IN  [k \in {df[1] : df \in hit} |->
            LET comp == (CHOOSE df \in hit : df[1] = k)[2]
                v == comp[Last(Matching(comp, t))].value
            IN  IF v = Null THEN Null ELSE Float(ToNumber(v))]

\* C15: the forecasts list has exactly one fragment per distinct start-time
\* token of the description series, built from the last description with
\* that token; companion entries that match no description token create no
\* fragment and change none (a fragment's derived fields come from the
\* entries with its own token only).
C15_OneFragmentPerToken ==
    ForecastReturned =>
        /\ Len(forecast_out.forecasts) = Cardinality(DescriptionTokens)
        /\ \A t \in DescriptionTokens :
              \E i \in DOMAIN forecast_out.forecasts :
                  forecast_out.forecasts[i] =
                      Update(Fragment(LastDescription(t)), DerivedOf(t))
        /\ \A i \in DOMAIN forecast_out.forecasts :
              forecast_out.forecasts[i].startTime \in DescriptionTokens

\* the 06:00 token twice with different descriptions, and a companion entry
\* for 12:00, which no description has
C15_Witness ==
    /\ ForecastReturned
    /\ Len(time_series) = 2
    /\ time_series[1].StartTime = T06
    /\ time_series[2].StartTime = T06
    /\ time_series[1].WeatherDescription # time_series[2].WeatherDescription
    /\ \E i \in DOMAIN companion : companion[i].time = T12
    /\ \E i \in DOMAIN companion : companion[i].time = T06
    /\ Len(forecast_out.forecasts) = 1


-----------------------------------------------------------------------------
(* Properties of extract_observation_data / extract_uv_data *)

\* the positions of the output records of station id
OutputPlaces(id) ==
    {j \in DOMAIN stations_out.processed_data :
        stations_out.processed_data[j].stationId = id}

\* station i has WGS84 coordinates and every key the extractor reads
WellFormed(i) == stations[i].wgs84 /\ stations[i].absent = "none"

\* station i reports a UV index of 0 or more
ReportsUV(i) ==
    /\ stations[i].UVIndex # NoUVIndex
    /\ IntOf(stations[i].UVIndex) >= 0

\* C16 (as claimed): extract_uv_data leaves out every station whose UV index
\* is -99 or missing, and puts every station with WGS84 coordinates and a UV
\* index of 0 or more in the output exactly once, in input order.
C16_UVFilter ==
    (spc = "done" /\ skind = "uv") =>
        /\ \A i \in DOMAIN stations :
              /\ (stations[i].wgs84 /\ ~ReportsUV(i)) => OutputPlaces(i) = {}
              /\ (WellFormed(i) /\ ReportsUV(i)) => Cardinality(OutputPlaces(i)) = 1
        /\ \A j, k \in DOMAIN stations_out.processed_data :
              j < k => stations_out.processed_data[j].stationId
                          < stations_out.processed_data[k].stationId

\* station i belongs in the output of the extractor
Expected(i) ==
    /\ WellFormed(i)
    /\ skind = "uv" => ReportsUV(i)

\* C19 (as claimed): a station that lacks an expected key does not abort its
\* siblings; every other well-formed station of the payload is in the output.
C19_SiblingsSurvive ==
    spc = "done" =>
        \A i \in DOMAIN stations : Expected(i) => OutputPlaces(i) # {}

\* without a station that lacks a key, both extractors give the expected
\* stations, once each and in input order
StationsWithoutLookupFailure ==
    (spc = "done" /\ \A i \in DOMAIN stations : stations[i].absent = "none") =>
        /\ stations_out.raised = "none"
        /\ \A i \in DOMAIN stations :
              Cardinality(OutputPlaces(i)) = (IF Expected(i) THEN 1 ELSE 0)


-----------------------------------------------------------------------------
(* Properties of SunriseService.fetch_sunrise_data *)

SunriseReturned == sunpc = "done" /\ sunrise_out.raised = "none"

\* the (county, date) pairs of a payload
PairsOf(entries) == {<<entries[i].CountyName, entries[i].Date>> : i \in DOMAIN entries}

\* the last entry of a payload for a (county, date) pair
LastEntry(entries, pair) ==
    entries[Last({i \in DOMAIN entries :
                     <<entries[i].CountyName, entries[i].Date>> = pair})]

\* the output records of a (county, date) pair
RecordsOf(pair) ==
    {j \in DOMAIN sunrise_out.records :
        <<sunrise_out.records[j].countyName, sunrise_out.records[j].date>> = pair}

\* C17: the output has exactly one record per (county, date) of the sun
\* payload and no other record; a pair the moon payload lacks has no
\* moonriseTime / moonsetTime field, a pair in both payloads carries the moon
\* fields of the moon payload, and a pair of the moon payload alone has no
\* record.
C17_SunKeysOnly ==
    SunriseReturned =>
        /\ Len(sunrise_out.records) = Cardinality(PairsOf(sun_entries))
        /\ \A pair \in PairsOf(sun_entries) :
              /\ Cardinality(RecordsOf(pair)) = 1
              /\ LET rec == sunrise_out.records[CHOOSE j \in RecordsOf(pair) : TRUE]
                 IN  IF pair \in PairsOf(moon_entries)
                     THEN /\ rec.moonriseTime = MoonRiseOf(LastEntry(moon_entries, pair))
                          /\ rec.moonsetTime = LastEntry(moon_entries, pair).MoonSetTime
                     ELSE /\ "moonriseTime" \notin DOMAIN rec
                          /\ "moonsetTime" \notin DOMAIN rec
        /\ \A pair \in PairsOf(moon_entries) \ PairsOf(sun_entries) :
              RecordsOf(pair) = {}

\* one pair in the sun payload only, one in both, one in the moon payload only
C17_Witness ==
    /\ SunriseReturned
    /\ \E a \in PairsOf(sun_entries) : a \notin PairsOf(moon_entries)
    /\ \E b \in PairsOf(sun_entries) : b \in PairsOf(moon_entries)
    /\ \E c \in PairsOf(moon_entries) : c \notin PairsOf(sun_entries)
    /\ Len(sunrise_out.records) = 2


-----------------------------------------------------------------------------
(* Properties of repeated normalization *)

\* C18 (as claimed): a normalizer invoked twice on the same payload, at
\* whatever clock times, gives the same outcome: every field of every
\* record has the same value.
C18_Deterministic ==
    repeated =>
        /\ rpc = "done" => radar_out = first_out
        /\ sunpc = "done" => sunrise_out = first_out
        /\ fpc = "done" => forecast_out = first_out
        /\ spc = "done" => stations_out = first_out

\* the extractors that do not read the clock give the same outcome twice
ClockFreeDeterministic ==
    repeated =>
        /\ fpc = "done" => forecast_out = first_out
        /\ spc = "done" => stations_out = first_out


-----------------------------------------------------------------------------
(* Properties of save_to_r2 *)

\* C20: a save_to_r2 call makes at most one put_object attempt; a failure of
\* client acquisition, bucket lookup, serialization or put_object ends the
\* call by raising, the stats are not returned and nothing is tried again;
\* the stats {success_count: 1, failed_count: 0} are returned only when the
\* one put_object succeeded.
C20_SingleAttempt ==
    /\ put_attempts <= 1
    /\ ufailed # "none" =>
          /\ upc = "raised"
          /\ uexc # "none"
          /\ upload_result = NoResult
          /\ ~put_done
          /\ put_attempts = (IF ufailed = "put_object" THEN 1 ELSE 0)
    /\ upload_result # NoResult =>
          /\ upload_result = UploadStats
          /\ upc = "returned"
          /\ put_done
          /\ StoragePath(uploader) \in stored
          /\ put_attempts = 1
          /\ ufailed = "none"
    /\ upc = "returned" => upload_result = UploadStats

\* a second call, with the client cached, whose put_object failed
C20_Witness ==
    /\ uploads = 2
    /\ r2_cached
    /\ upc = "raised"
    /\ ufailed = "put_object"
    /\ put_attempts = 1



-----------------------------------------------------------------------------
(* Further properties of batch_save *)

Returned == result # NoResult

Raised == exc # "none"

\* C21: every batch_save call terminates, and it ends in exactly one of two
\* ways: a BatchResult was returned or an exception was raised; while the
\* call runs neither has happened.
C21_ReturnsOrRaises ==
    /\ <>Terminal
    /\ [](Terminal => (Returned # Raised))
    /\ [](~Terminal => (~Returned /\ ~Raised))

\* a call on the longest list that went through every item and then raised at
\* the final flush
C21_Witness ==
    /\ bpc = "raised"
    /\ N = MaxItems
    /\ Len(trace) = N + 1
    /\ Raised
    /\ ~Returned


-----------------------------------------------------------------------------
(* Properties of the ClientPreloader *)

\* the step is a start call of the main thread that reaches client c
StartCall(c) ==
    \/ /\ caller = "calls"
       /\ api_calls' = api_calls + 1
       /\ waited' = waited
       /\ started'[c]
    \/ /\ caller = "start_r2"
       /\ caller' = "calls"
       /\ c = "r2"

\* C22: each client's preload job is submitted to the executor at most once;
\* a start call for a client whose preload was already started changes
\* neither its future nor the number of submitted jobs.
C22_StartIdempotent ==
    /\ [](\A c \in Clients : submitted[c] <= 1)
    /\ [][\A c \in Clients :
            (started[c] /\ StartCall(c)) =>
                /\ future'[c] = future[c]
                /\ submitted'[c] = submitted[c]]_vars

\* three start calls and no wait: some client was started again, here after
\* both jobs had finished
C22_Witness ==
    /\ api_calls = 3
    /\ waited = <<>>
    /\ caller = "calls"
    /\ \A c \in Clients : submitted[c] = 1 /\ worker[c] = "done"

WaitStates == {"done", "failed", "timeout", "not started"}

\* C23: no wait_for_firestore / wait_for_r2 call raises, whatever state the
\* preload is in (done with a client, failed, still running at the timeout,
\* never started), and the main thread goes on to its write after each.
C23_WaitReturns ==
    /\ [](/\ caller # "raised"
          /\ \A i \in DOMAIN waited :
                /\ waited[i].raised = "none"
                /\ waited[i].found \in WaitStates)
    /\ [][waited' # waited => caller' = "write"]_vars

\* one run in which waits met all four preload states
C23_Witness ==
    /\ {waited[i].found : i \in DOMAIN waited} = WaitStates
    /\ caller = "write"


\* batch.set or batch.commit was called in the step recorded by ev
WriteAttempted(ev) == ev.set # "none" \/ ev.commit # "none"

QuotaAt(j) == trace[j].set \in QuotaErrors \/ trace[j].commit \in QuotaErrors

\* C24: after a quota-class error nothing more is written in the call: no
\* batch.set for a later item, no commit in the loop, no commit at the flush.
C24_NoWriteAfterQuota ==
    \A j \in DOMAIN trace :
        QuotaAt(j) =>
            /\ \A l \in (j + 1)..Len(trace) : ~WriteAttempted(trace[l])
            /\ Len(commits) =
                  Cardinality({l \in 1..j : trace[l].commit = "ok"})

\* a quota-class error at an item that is not the last, with a write of an
\* earlier item still staged: the rest of the list and the flush were due
C24_Witness ==
    /\ bpc = "raised"
    /\ trace # <<>>
    /\ Len(trace) < N
    /\ QuotaAt(Len(trace))
    /\ batch # <<>>
    /\ circuit_open


-----------------------------------------------------------------------------
(* Further properties of the tasks *)

Positions(step) == {i \in DOMAIN steps : steps[i] = step}

Done(step) == Positions(step) # {}

\* every occurrence of step a comes before every occurrence of step b
Before(a, b) == \A i \in Positions(a), j \in Positions(b) : i < j

\* C25: in a task run the preload is started before the connectivity check and
\* before the fetch; the wait for the preload comes after the fetch has
\* returned and before the write; the main thread is at its write, or has
\* written, only after the wait returned.
C25_EventOrder ==
    /\ (Done("test_connection") \/ Done("fetch")) => Done("start_preloading")
    /\ Before("start_preloading", "test_connection")
    /\ Before("start_preloading", "fetch")
    /\ Done("wait_for_preloading") => Done("fetch")
    /\ Before("fetch", "wait_for_preloading")
    /\ (tpc = "write" \/ Done("write")) => Done("wait_for_preloading")
    /\ Before("wait_for_preloading", "write")
    /\ \A i \in DOMAIN steps : Cardinality(Positions(steps[i])) = 1

\* a run that went through every step
C25_Witness ==
    /\ tpc = "returned"
    /\ steps = <<"start_preloading", "test_connection", "fetch",
                 "wait_for_preloading", "write">>


\* the connectivity check of this run reported the API as unreachable
Unreachable ==
    /\ notifier_calls # <<>>
    /\ notifier_calls[1] = NotifierCall("notify_failure", "ConnectionError")

\* C30 (as claimed): a run whose connectivity check reported the API as
\* unreachable did no fetch, no wait and no write, sent exactly one failure
\* notification, carrying the ConnectionError, and returned without raising.
C30_UnreachableReturns ==
    (TaskEnded /\ Unreachable) =>
        /\ ~Done("fetch")
        /\ ~Done("wait_for_preloading")
        /\ ~Done("write")
        /\ Len(notifier_calls) = 1
        /\ tpc = "returned"
        /\ texc = "none"


\* C26: at every point of a batch_save call failed_count is the number of
\* entries of failed_items and total_attempts is the length of the input
\* list; the returned stats satisfy the same.
C26_FailedCountMatches ==
    /\ stats.failed_count = Len(stats.failed_items)
    /\ stats.total_attempts = N
    /\ Returned =>
          /\ result.failed_count = Len(result.failed_items)
          /\ result.total_attempts = N

\* a returned call in which every item of a list of two or more failed
C26_Witness ==
    /\ bpc = "returned"
    /\ N >= 2
    /\ stats.failed_count = N
    /\ result = stats


\* C27 (as claimed): the writes staged in the current, uncommitted batch never
\* number more than batch_size.
C27_StagedWithinCeiling ==
    /\ Len(batch) <= batch_size
    /\ count <= batch_size


\* the items whose write is in a batch that was committed
Committed == {i \in 1..N : CommittedPlaces(i) # {}}

\* the items batch.set accepted, which are the items success_count counted
Staged == {k \in 1..N : k \in DOMAIN trace /\ trace[k].set = "ok"}

\* C28: when batch_save has returned, no staged write is left uncommitted:
\* the items counted in success_count are the items of the committed
\* batches, each written by one successful commit.
C28_NothingLeftStaged ==
    bpc = "returned" =>
        /\ Staged = Committed
        /\ result.success_count = Cardinality(Committed)
        /\ \A i \in Committed : Cardinality(CommittedPlaces(i)) = 1
        /\ \A p \in DOMAIN batch : batch[p] \in Committed

\* a commit in the loop raised a generic error, the writes stayed in the
\* batch and the flush committed them
C28_Witness ==
    /\ bpc = "returned"
    /\ N >= 2
    /\ \E k \in DOMAIN trace : trace[k].commit = "Exception"
    /\ trace[Len(trace)].item = 0
    /\ trace[Len(trace)].commit = "ok"
    /\ Committed = 1..N


\* the R2 clients that get_r2_client calls handed to their callers
Received == {r.instance : r \in returned}

\* one client at most, one value ever stored in _r2_client, the same
\* instance for every caller
SingleClient ==
    /\ Cardinality(built) <= 1
    /\ Len(assigned) <= 1
    /\ Cardinality(Received) <= 1

\* C29 (as claimed): in every interleaving of the preload job and the main
\* thread the R2 client is constructed at most once, every caller of
\* get_r2_client receives the same instance, and the cached handle, once
\* set, is never replaced or reset.
C29_SingleClientAlways ==
    /\ SingleClient
    /\ assigned # <<>> => client["r2"] = assigned[1]

\* C29 (amended): as long as no get_r2_client call finds the handle unset
\* while the other thread is between its own null check and its assignment,
\* there is a single client; such an overlap needs a wait_for_r2 that timed
\* out.  In every interleaving each thread constructs at most one client,
\* callers receive constructed clients only, and the handle, once set, holds
\* the last value assigned and is never reset to None.
C29_SingleClientUnlessOverlap ==
    /\ ~overlapped => SingleClient
    /\ overlapped =>
          \E i \in DOMAIN waited :
              waited[i].client = "r2" /\ waited[i].found = "timeout"
    /\ built \subseteq {"preloaded", "inline"}
    /\ Len(assigned) <= 2
    /\ Received \subseteq built
    /\ assigned # <<>> => client["r2"] = assigned[Len(assigned)]

\* the preload finished before the main thread's write: both threads ran
\* get_r2_client and got the client the preload job built
C29_Witness ==
    /\ ~overlapped
    /\ returned = {[thread |-> "worker", instance |-> "preloaded"],
                   [thread |-> "main", instance |-> "preloaded"]}
    /\ built = {"preloaded"}

====
